---- MODULE Spec2Model ----
(***************************************************************************)
(* Verification model of the code-review platform (asmeyatsky/coderev):    *)
(* the CodeReview entity and its state machine, the review domain service, *)
(* the approve use case running against the in-memory repository, and the  *)
(* SLA summary.                                                            *)
(***************************************************************************)
EXTENDS Integers, FiniteSets, Sequences, TLC

VARIABLES
    review,      \* the CodeReview value the entity operations are applied to
    lastOp,      \* name of the last operation called
    arg,         \* argument of the last operation (a user id, or NoArg)
    lastResult,  \* "ok", or the kind of exception the last call raised
    ret,         \* value returned by the last query (can_merge, ...)
    actor,       \* the User passed to the last domain-service query
    repo,        \* InMemoryCodeReviewRepository._code_reviews[ReviewId]
    lock,        \* InMemoryCodeReviewRepository._lock: 0 free, else holder
    procs,       \* the running use-case executions
    saves,       \* the save() calls in the order they ran
    reviews,     \* the list handed to SLAService.get_sla_summary
    now,         \* wall clock (hours) read by the SLA queries
    summary,     \* the dict returned by get_sla_summary
    notified,    \* hours at which an escalation notification was sent
    riskScore,   \* the RiskScore last constructed, or the error it raised
    environment, \* the Environment value the lifecycle calls are applied to
    comment,     \* the Comment value the comment operations are applied to
    commentRepo, \* InMemoryCommentRepository._comments, in order of save
    userRepo     \* InMemoryUserRepository._users, in order of insertion

vars == <<review, lastOp, arg, lastResult, ret, actor, repo, lock, procs,
          saves, reviews, now, summary, notified, riskScore,
                   environment, comment, commentRepo, userRepo>>

(***************************************************************************)
(* Bounds                                                                  *)
(***************************************************************************)
MaxUsers == 2
MaxRequired == 2
MaxComments == 1
MaxApprovals == 2
MaxReviews == 2

UserIds == 1..MaxUsers
NoArg == 0
NoRet == "none"
NoUser == [id |-> 0, roles |-> {}]

(***************************************************************************)
(* Enumerations                                                            *)
(***************************************************************************)
ReviewStatus ==
    {"draft", "open", "under_review", "needs_work",
     "approved", "rejected", "merged", "closed"}

UserRole ==
    {"developer", "reviewer", "qa_engineer", "security_engineer",
     "compliance_officer", "admin"}

\* `"security" in role.value`: the substring test over the six role values
RoleValueContainsSecurity(role) == role = "security_engineer"

\* `"qa" in role.value`
RoleValueContainsQa(role) == role = "qa_engineer"

Raise(kind) == [error |-> kind]

Raised(x) == "error" \in DOMAIN x

(***************************************************************************)
(* CodeReview entity                                                       *)
(***************************************************************************)
\* CodeReview(...) with the dataclass defaults, for the given arguments
NewCodeReview(requester, status, required, sec, qa) ==
    [ requester                  |-> requester,
      status                     |-> status,
      reviewers                  |-> {},
      approvers                  |-> {},
      rejectors                  |-> {},
      required_approvals         |-> required,
      current_approvals          |-> 0,
      risk_score                 |-> -1,
      security_approval_required |-> sec,
      qa_approval_required       |-> qa,
      comments_count             |-> 0,
      files_changed              |-> 0,
      additions                  |-> 0,
      deletions                  |-> 0 ]

update_reviewers(self, new_reviewers) ==
    [self EXCEPT !.reviewers = new_reviewers]

update_approvals(self, approvers, rejectors, current_approvals, status) ==
    [self EXCEPT !.approvers = approvers,
                 !.rejectors = rejectors,
                 !.current_approvals = current_approvals,
                 !.status = status]

update_status(self, status) == [self EXCEPT !.status = status]

update_comments_count(self, n) == [self EXCEPT !.comments_count = n]

\* assign_reviewer that withdraws a reviewer who is already assigned
assign_reviewer_toggles(self, reviewer_id) ==
    update_reviewers(self,
                     IF reviewer_id \in self.reviewers
                     THEN self.reviewers \ {reviewer_id}
                     ELSE self.reviewers \cup {reviewer_id})

assign_reviewer(self, reviewer_id) ==
    update_reviewers(self, self.reviewers \cup {reviewer_id})

\* request_changes that forgets to discard the user from approvers
request_changes_keeps_approver(self, reviewer_id) ==
    update_approvals(self, self.approvers,
                     self.rejectors \cup {reviewer_id},
                     Cardinality(self.approvers), "needs_work")

\* request_changes guarded like approve and reject
request_changes_guarded(self, reviewer_id) ==
    IF self.status \notin {"open", "under_review"}
    THEN Raise("ValueError")
    ELSE update_approvals(self, self.approvers \ {reviewer_id},
                          self.rejectors \cup {reviewer_id},
                          Cardinality(self.approvers \ {reviewer_id}),
                          "needs_work")

request_changes(self, reviewer_id) ==
    LET new_rejectors == self.rejectors \cup {reviewer_id}
        new_approvers == self.approvers \ {reviewer_id}
    IN  update_approvals(self, new_approvers, new_rejectors,
                         Cardinality(new_approvers), "needs_work")

\* approve that needs more than required_approvals approvers
approve_strict_threshold(self, reviewer_id) ==
    IF self.status \notin {"open", "under_review"}
    THEN Raise("ValueError")
    ELSE LET new_approvers == self.approvers \cup {reviewer_id}
             current_approvals == Cardinality(new_approvers)
         IN  update_approvals(self, new_approvers,
                              self.rejectors \ {reviewer_id},
                              current_approvals,
                              IF current_approvals > self.required_approvals
                              THEN "approved" ELSE self.status)

\* approve that also accepts a review in status needs_work
approve_from_needs_work(self, reviewer_id) ==
    IF self.status \notin {"open", "under_review", "needs_work"}
    THEN Raise("ValueError")
    ELSE LET new_approvers == self.approvers \cup {reviewer_id}
             current_approvals == Cardinality(new_approvers)
         IN  update_approvals(self, new_approvers,
                              self.rejectors \ {reviewer_id},
                              current_approvals,
                              IF current_approvals >= self.required_approvals
                              THEN "approved" ELSE self.status)

approve(self, reviewer_id) ==
    IF self.status \notin {"open", "under_review"}
    THEN Raise("ValueError")
    ELSE LET new_approvers == self.approvers \cup {reviewer_id}
             new_rejectors == self.rejectors \ {reviewer_id}
             current_approvals == Cardinality(new_approvers)
             new_status == IF current_approvals >= self.required_approvals
                           THEN "approved" ELSE self.status
         IN  update_approvals(self, new_approvers, new_rejectors,
                              current_approvals, new_status)

\* reject without the status guard
reject_unguarded(self, reviewer_id) ==
    update_approvals(self, self.approvers \ {reviewer_id},
                     self.rejectors \cup {reviewer_id},
                     Cardinality(self.approvers \ {reviewer_id}), "rejected")

reject(self, reviewer_id) ==
    IF self.status \notin {"open", "under_review"}
    THEN Raise("ValueError")
    ELSE LET new_rejectors == self.rejectors \cup {reviewer_id}
             new_approvers == self.approvers \ {reviewer_id}
         IN  update_approvals(self, new_approvers, new_rejectors,
                              Cardinality(new_approvers), "rejected")

can_merge(self) ==
    IF self.status # "approved" THEN FALSE
    ELSE IF self.security_approval_required
            /\ ~ \E role \in self.requester.roles :
                     RoleValueContainsSecurity(role)
         THEN FALSE
    ELSE IF self.qa_approval_required
            /\ ~ \E role \in self.requester.roles : RoleValueContainsQa(role)
         THEN FALSE
    ELSE self.current_approvals >= self.required_approvals

\* merge that looks at the number of approvals only, not at the status
merge_on_enough_approvals(self) ==
    IF self.current_approvals < self.required_approvals
    THEN Raise("ValueError")
    ELSE update_status(self, "merged")

merge(self) ==
    IF ~ can_merge(self) THEN Raise("ValueError")
    ELSE update_status(self, "merged")

close(self) == update_status(self, "closed")

add_comment(self) == update_comments_count(self, self.comments_count + 1)

update_stats(self, files_changed, additions, deletions) ==
    [self EXCEPT !.files_changed = files_changed,
                 !.additions = additions,
                 !.deletions = deletions]

set_risk_score(self, score) == [self EXCEPT !.risk_score = score]

(***************************************************************************)
(* ReviewDomainService                                                     *)
(***************************************************************************)
\* can_user_approve_review without the self-approval check
can_user_approve_review_allows_requester(user, code_review) ==
    IF user.id \notin code_review.reviewers THEN FALSE
    ELSE IF code_review.security_approval_required
            /\ "security_engineer" \notin user.roles
         THEN FALSE
    ELSE IF code_review.qa_approval_required
            /\ "qa_engineer" \notin user.roles
         THEN FALSE
    ELSE TRUE

can_user_approve_review(user, code_review) ==
    IF user.id \notin code_review.reviewers THEN FALSE
    ELSE IF code_review.security_approval_required
            /\ "security_engineer" \notin user.roles
         THEN FALSE
    ELSE IF code_review.qa_approval_required
            /\ "qa_engineer" \notin user.roles
         THEN FALSE
    ELSE IF user.id = code_review.requester.id THEN FALSE
    ELSE TRUE

(***************************************************************************)
(* Specification Spec: the entity state machine, driven from a newly       *)
(* constructed review (no reviewers, approvers or rejectors, zero          *)
(* approvals) of any status, by any sequence of calls with any user id.    *)
(***************************************************************************)
RequesterId == 1

RequesterRoleSets ==
    {{"developer"}, {"developer", "security_engineer"},
     {"developer", "qa_engineer"}, {"security_engineer", "qa_engineer"}}

\* <<security_approval_required, qa_approval_required, requester roles>> of
\* the reviews Spec starts from
RequirementCases ==
    {<<FALSE, FALSE, {"developer"}>>,
     <<TRUE, FALSE, {"developer"}>>,
     <<FALSE, TRUE, {"developer", "security_engineer"}>>,
     <<TRUE, TRUE, {"security_engineer", "qa_engineer"}>>}

RiskScoreInputs == {80}

StatInputs == {<<3, 120, 40>>}

IdleRepo == NewCodeReview(NoUser, "draft", 1, FALSE, FALSE)

IdleSummary ==
    [total_active |-> 0, on_time |-> 0, at_risk |-> 0, overdue |-> 0,
     escalated |-> 0, escalation_percentage |-> <<0, 1>>]

UseCaseIdle ==
    /\ repo = IdleRepo
    /\ lock = 0
    /\ procs = <<>>
    /\ saves = <<>>

SlaIdle ==
    /\ reviews = <<>>
    /\ now = 0
    /\ summary = IdleSummary

NoRiskScore == [error |-> "none"]

EscalationIdle == notified = <<>>

RiskIdle == riskScore = NoRiskScore

NoEnvironment == [error |-> "none"]

EnvironmentIdle == environment = NoEnvironment

NoComment == [error |-> "none"]

CommentIdle ==
    /\ comment = NoComment
    /\ commentRepo = <<>>

\* the specifications that do not vary the stored users read them from
\* StoredUser
UserRepoIdle == userRepo = <<>>

Init ==
    /\ review \in
         {NewCodeReview([id |-> RequesterId, roles |-> c[3]], st, n,
                        c[1], c[2]) :
            c \in RequirementCases, st \in ReviewStatus,
            n \in 1..MaxRequired}
    /\ lastOp = "init"
    /\ arg = NoArg
    /\ lastResult = "ok"
    /\ ret = NoRet
    /\ actor = NoUser
    /\ UseCaseIdle
    /\ SlaIdle
    /\ EscalationIdle
    /\ RiskIdle
    /\ EnvironmentIdle
    /\ CommentIdle
    /\ UserRepoIdle

\* the caller keeps the returned instance, or the one it had when the call raised
Returned(op, a, result) ==
    /\ lastOp' = op
    /\ arg' = a
    /\ ret' = NoRet
    /\ IF Raised(result)
       THEN /\ lastResult' = result.error
            /\ review' = review
       ELSE /\ lastResult' = "ok"
            /\ review' = result
    /\ UNCHANGED <<actor, repo, lock, procs, saves, reviews, now, summary,
                   notified, riskScore,
                   environment, comment, commentRepo, userRepo>>

AssignReviewer(uid) ==
    Returned("assign_reviewer", uid, assign_reviewer(review, uid))

Approve(uid) == Returned("approve", uid, approve(review, uid))

Reject(uid) == Returned("reject", uid, reject(review, uid))

RequestChanges(uid) ==
    Returned("request_changes", uid, request_changes(review, uid))

Merge == Returned("merge", NoArg, merge(review))

Close == Returned("close", NoArg, close(review))

AddComment ==
    /\ review.comments_count < MaxComments
    /\ Returned("add_comment", NoArg, add_comment(review))

SetRiskScore(score) ==
    Returned("set_risk_score", NoArg, set_risk_score(review, score))

UpdateStats(t) ==
    Returned("update_stats", NoArg, update_stats(review, t[1], t[2], t[3]))

CanMerge ==
    /\ lastOp' = "can_merge"
    /\ arg' = NoArg
    /\ lastResult' = "ok"
    /\ ret' = can_merge(review)
    /\ UNCHANGED <<review, actor, repo, lock, procs, saves, reviews, now,
                   summary, notified, riskScore,
                   environment, comment, commentRepo, userRepo>>

Next ==
    \/ \E uid \in UserIds : AssignReviewer(uid)
    \/ \E uid \in UserIds : Approve(uid)
    \/ \E uid \in UserIds : Reject(uid)
    \/ \E uid \in UserIds : RequestChanges(uid)
    \/ Merge
    \/ Close
    \/ AddComment
    \/ \E score \in RiskScoreInputs : SetRiskScore(score)
    \/ \E t \in StatInputs : UpdateStats(t)
    \/ CanMerge

Spec == Init /\ [][Next]_vars

(***************************************************************************)
(* Claims about the entity state machine (checked under Spec)              *)
(***************************************************************************)

\* C1: from a newly created review, after any sequence of successful or
\* failed approve, reject and request_changes calls by any users (and of
\* the other entity operations), current_approvals equals the number of ids
\* in approvers and no user id is in both approvers and rejectors.
C1_ApprovalBookkeeping ==
    /\ review.current_approvals = Cardinality(review.approvers)
    /\ review.approvers \cap review.rejectors = {}

\* a review with an approver and a rejector, just after a request_changes
C1_Witness ==
    /\ lastOp = "request_changes"
    /\ review.approvers # {}
    /\ review.rejectors # {}
    /\ review.current_approvals = 1

\* C2: every successful approve call that leaves fewer than
\* required_approvals distinct users in approvers leaves the status
\* unchanged and can_merge() false; the one that brings the number of
\* distinct approvers to required_approvals sets the status to approved;
\* can_merge() is true only once that many distinct users have approved;
\* approving again with the same user counts once.
C2_ApproveStep ==
    (lastOp' = "approve" /\ lastResult' = "ok") =>
        /\ review'.approvers = review.approvers \cup {arg'}
        /\ review'.current_approvals = Cardinality(review'.approvers)
        /\ IF Cardinality(review'.approvers) < review.required_approvals
           THEN /\ review'.status = review.status
                /\ ~ can_merge(review')
           ELSE review'.status = "approved"

C2_CanMergeOnlyWhenEnough ==
    can_merge(review) =>
        /\ review.status = "approved"
        /\ Cardinality(review.approvers) >= review.required_approvals

\* C2: every step satisfies the approve rule above, and can_merge() holds
\* only with status approved and at least required_approvals approvers.
C2_ApprovalThreshold ==
    [][C2_ApproveStep /\ C2_CanMergeOnlyWhenEnough']_vars

\* the second distinct approval of a review that requires two
C2_Witness ==
    /\ lastOp = "approve"
    /\ lastResult = "ok"
    /\ review.required_approvals = 2
    /\ Cardinality(review.approvers) = 2
    /\ review.status = "approved"
    /\ can_merge(review)

\* C3: approve(uid) on a review whose status is draft, needs_work,
\* approved, rejected, merged or closed fails with an illegal-state error
\* (ValueError) for every uid and produces no updated review.
NotApprovable ==
    {"draft", "needs_work", "approved", "rejected", "merged", "closed"}

C3_ApproveFailsOutsideOpen ==
    [][(lastOp' = "approve" /\ review.status \in NotApprovable) =>
          (lastResult' = "ValueError" /\ review' = review)]_vars

\* a failed approve of a review that already has an approver
C3_Witness ==
    /\ lastOp = "approve"
    /\ lastResult = "ValueError"
    /\ review.status \in NotApprovable
    /\ review.approvers # {}

\* C4: merge() on a review whose status is not approved fails with an
\* illegal-state error; merge() on every review whose status is approved
\* and whose current_approvals >= required_approvals succeeds and returns a
\* review with status merged.
C4_MergeStep ==
    lastOp' = "merge" =>
        IF /\ review.status = "approved"
           /\ review.current_approvals >= review.required_approvals
        THEN lastResult' = "ok" /\ review'.status = "merged"
        ELSE lastResult' = "ValueError" /\ review' = review

\* C4: every merge() call succeeds, returning status merged, exactly when
\* status is approved and current_approvals >= required_approvals, and
\* fails with ValueError otherwise.
C4_MergeIffApprovedEnough == [][C4_MergeStep]_vars

\* C6 (as claimed): once a review has status merged, closed or rejected, no
\* state-machine operation returns a review with a different status.
TerminalStatuses == {"merged", "closed", "rejected"}

C6_TerminalNeverLeft ==
    [][review.status \in TerminalStatuses =>
          review'.status = review.status]_vars

\* C6 (amended): on a review in status merged, closed or rejected, approve,
\* reject and merge fail and assign_reviewer, add_comment, set_risk_score
\* and update_stats keep the status; the only operations that return a
\* review with a different status are request_changes (needs_work) and
\* close (closed).
C6_TerminalStep ==
    review.status \in TerminalStatuses =>
        /\ lastOp' \in {"approve", "reject", "merge"} =>
               (lastResult' = "ValueError" /\ review' = review)
        /\ \/ review'.status = review.status
           \/ lastOp' = "request_changes" /\ review'.status = "needs_work"
           \/ lastOp' = "close" /\ review'.status = "closed"

\* C6 (amended): every step from a terminal status satisfies the rule above.
C6_TerminalExceptRequestChangesAndClose == [][C6_TerminalStep]_vars

\* a rejected review on which a later reject call failed
C6_Witness ==
    /\ lastOp = "reject"
    /\ lastResult = "ValueError"
    /\ review.status \in TerminalStatuses

\* C7: request_changes(uid) succeeds from every status and for every uid
\* (assigned reviewer or not); the returned review has uid in rejectors,
\* uid not in approvers, current_approvals equal to the new number of
\* approvers, and status needs_work.
C7_RequestChangesAlwaysSucceeds ==
    lastOp = "request_changes" =>
        /\ lastResult = "ok"
        /\ arg \in review.rejectors
        /\ arg \notin review.approvers
        /\ review.current_approvals = Cardinality(review.approvers)
        /\ review.status = "needs_work"

\* request_changes by a user who is not an assigned reviewer, while another
\* user's approval stays recorded
C7_Witness ==
    /\ lastOp = "request_changes"
    /\ arg \notin review.reviewers
    /\ review.approvers # {}
    /\ review.status = "needs_work"

(***************************************************************************)
(* Specification SpecValues: the queries can_merge, merge and              *)
(* can_user_approve_review applied to every CodeReview value the           *)
(* constructor accepts (status, counters, flags and reviewers chosen       *)
(* independently) and to every user.                                       *)
(***************************************************************************)
UserRoleSets ==
    {{"developer"}, {"reviewer"}, {"reviewer", "security_engineer"},
     {"reviewer", "qa_engineer"}, {"security_engineer", "qa_engineer"}}

Users == [id : UserIds, roles : UserRoleSets]

ReviewValues ==
    {[NewCodeReview([id |-> RequesterId, roles |-> rs], st, n, sec, qa)
        EXCEPT !.current_approvals = k, !.reviewers = rv] :
       rs \in RequesterRoleSets, st \in ReviewStatus,
       n \in 1..MaxRequired, k \in 0..MaxApprovals,
       sec \in BOOLEAN, qa \in BOOLEAN, rv \in SUBSET UserIds}

InitValues ==
    /\ review \in ReviewValues
    /\ lastOp = "init"
    /\ arg = NoArg
    /\ lastResult = "ok"
    /\ ret = NoRet
    /\ actor = NoUser
    /\ UseCaseIdle
    /\ SlaIdle
    /\ EscalationIdle
    /\ RiskIdle
    /\ EnvironmentIdle
    /\ CommentIdle
    /\ UserRepoIdle

CanUserApproveReview(user) ==
    /\ lastOp' = "can_user_approve_review"
    /\ arg' = user.id
    /\ actor' = user
    /\ lastResult' = "ok"
    /\ ret' = can_user_approve_review(user, review)
    /\ UNCHANGED <<review, repo, lock, procs, saves, reviews, now, summary,
                   notified, riskScore,
                   environment, comment, commentRepo, userRepo>>

NextValues ==
    \/ CanMerge
    \/ Merge
    \/ \E user \in Users : CanUserApproveReview(user)

SpecValues == InitValues /\ [][NextValues]_vars

\* C5: for every review value, can_merge() returns true if and only if
\* status == approved and current_approvals >= required_approvals.
C5_CanMergeIffApprovedEnough ==
    lastOp = "can_merge" =>
        ret = (/\ review.status = "approved"
               /\ review.current_approvals >= review.required_approvals)

\* C9: can_user_approve_review(user, review) is true if and only if user.id
\* is in review.reviewers, and security_approval_required implies the user
\* has the security_engineer role, and qa_approval_required implies the
\* user has the qa_engineer role, and user.id differs from the requester's.
C9_CanUserApproveIff ==
    lastOp = "can_user_approve_review" =>
        ret = (/\ actor.id \in review.reviewers
               /\ review.security_approval_required =>
                      "security_engineer" \in actor.roles
               /\ review.qa_approval_required =>
                      "qa_engineer" \in actor.roles
               /\ actor.id # review.requester.id)

\* an assigned security and QA engineer may approve a review that requires
\* both approvals and whose requester is also an assigned reviewer
C9_Witness ==
    /\ lastOp = "can_user_approve_review"
    /\ ret = TRUE
    /\ review.security_approval_required
    /\ review.qa_approval_required
    /\ review.requester.id \in review.reviewers

(***************************************************************************)
(* Specification SpecUseCases: ApproveCodeReviewUseCaseImpl.execute run by *)
(* concurrent request threads against one stored review.  A thread can be  *)
(* preempted between any two repository calls; each repository call holds  *)
(* the repository's lock for its own duration only.                        *)
(***************************************************************************)
NumProcs == 2

Procs == 1..NumProcs

\* the stored users: the reviewers 1..MaxUsers and the author of the review
AuthorId == MaxUsers + 1

StoredUserIds == 1..AuthorId

\* InMemoryUserRepository._users
StoredUser(uid) ==
    [id |-> uid,
     roles |-> IF uid = AuthorId THEN {"developer"}
               ELSE IF uid = 1 THEN {"reviewer", "security_engineer"}
               ELSE {"reviewer"}]

\* ApproveCodeReviewUseCaseImpl._to_dto: ReviewStatusDTO and
\* ReviewPriorityDTO are not imported by approve_code_review.py, so building
\* the DTO raises NameError
approve_to_dto(code_review) == Raise("NameError")

\* execute without the permission check of can_user_approve_review
approve_decide_unchecked(code_review, reviewer_id) ==
    IF reviewer_id \notin StoredUserIds THEN Raise("ValueError")
    ELSE approve(code_review, reviewer_id)

\* lines 58-68 of execute: look the reviewer up, check the permission, and
\* apply the approval to the review read earlier
approve_decide(code_review, reviewer_id) ==
    IF reviewer_id \notin StoredUserIds THEN Raise("ValueError")
    ELSE IF ~ can_user_approve_review(StoredUser(reviewer_id), code_review)
         THEN Raise("PermissionError")
    ELSE approve(code_review, reviewer_id)

InitUseCases ==
    /\ repo \in
         {[NewCodeReview(StoredUser(AuthorId), "open", n, sec, FALSE)
             EXCEPT !.reviewers = rv] :
            n \in 1..MaxRequired, sec \in BOOLEAN, rv \in SUBSET UserIds}
    /\ lock = 0
    /\ procs \in
         [Procs -> [uc : {"approve"}, uid : StoredUserIds, pc : {"start"},
                    local : {IdleRepo}, result : {"none"}, seen : {0}]]
    /\ saves = <<>>
    /\ review = IdleRepo
    /\ lastOp = "init"
    /\ arg = NoArg
    /\ lastResult = "ok"
    /\ ret = NoRet
    /\ actor = NoUser
    /\ SlaIdle
    /\ EscalationIdle
    /\ RiskIdle
    /\ EnvironmentIdle
    /\ CommentIdle
    /\ UserRepoIdle

UcFrame == UNCHANGED <<review, lastOp, arg, lastResult, ret, actor, reviews,
                       now, summary, notified, riskScore,
                   environment, comment, commentRepo, userRepo>>

\* find_by_id: `with self._lock:` entered
UcFindAcquire(p) ==
    /\ procs[p].pc = "start"
    /\ lock = 0
    /\ lock' = p
    /\ procs' = [procs EXCEPT ![p].pc = "find"]
    /\ UNCHANGED <<repo, saves>>
    /\ UcFrame

\* find_by_id: `return self._code_reviews.get(review_id)`, lock released
UcFindById(p) ==
    /\ procs[p].pc = "find"
    /\ lock = p
    /\ lock' = 0
    /\ procs' = [procs EXCEPT ![p].pc = "decide",
                              ![p].local = repo,
                              ![p].seen = Len(saves)]
    /\ UNCHANGED <<repo, saves>>
    /\ UcFrame

\* user lookup, permission check and code_review.approve, on the thread's
\* own copy
UcDecide(p) ==
    /\ procs[p].pc = "decide"
    /\ LET r == approve_decide(procs[p].local, procs[p].uid)
       IN  IF Raised(r)
           THEN procs' = [procs EXCEPT ![p].pc = "done",
                                       ![p].result = r.error]
           ELSE procs' = [procs EXCEPT ![p].pc = "save_wait",
                                       ![p].local = r]
    /\ UNCHANGED <<repo, lock, saves>>
    /\ UcFrame

\* save: `with self._lock:` entered
UcSaveAcquire(p) ==
    /\ procs[p].pc = "save_wait"
    /\ lock = 0
    /\ lock' = p
    /\ procs' = [procs EXCEPT ![p].pc = "save"]
    /\ UNCHANGED <<repo, saves>>
    /\ UcFrame

\* save: `self._code_reviews[code_review.id] = code_review`, lock released
UcSave(p) ==
    /\ procs[p].pc = "save"
    /\ lock = p
    /\ repo' = procs[p].local
    /\ lock' = 0
    /\ saves' = Append(saves, p)
    /\ procs' = [procs EXCEPT ![p].pc = "to_dto"]
    /\ UcFrame

\* `return self._to_dto(saved_code_review)`
UcReturn(p) ==
    /\ procs[p].pc = "to_dto"
    /\ LET r == approve_to_dto(procs[p].local)
       IN  procs' = [procs EXCEPT ![p].pc = "done",
                                  ![p].result = IF Raised(r) THEN r.error
                                                ELSE "ok"]
    /\ UNCHANGED <<repo, lock, saves>>
    /\ UcFrame

NextUseCases ==
    \E p \in Procs :
        \/ UcFindAcquire(p)
        \/ UcFindById(p)
        \/ UcDecide(p)
        \/ UcSaveAcquire(p)
        \/ UcSave(p)
        \/ UcReturn(p)

SpecUseCases == InitUseCases /\ [][NextUseCases]_vars

\* two executions by different users that both read the stored review
\* before either saved, and have both finished after saving
BothReadBeforeEitherSave(p, q) ==
    /\ p # q
    /\ procs[p].uid # procs[q].uid
    /\ procs[p].pc = "done" /\ procs[q].pc = "done"
    /\ Len(saves) = 2
    /\ saves[1] = p /\ saves[2] = q
    /\ procs[p].seen = 0 /\ procs[q].seen = 0

\* C8: when two ApproveCodeReviewUseCase executions by two different
\* authorized reviewers both read the stored review before either saves,
\* both executions return success while the stored review contains only
\* the approval of the execution that saved last, and with
\* required_approvals = 2 the stored review is not approved.
C8_LostUpdateBothSucceed ==
    \A p, q \in Procs :
        BothReadBeforeEitherSave(p, q) =>
            /\ procs[p].result = "ok" /\ procs[q].result = "ok"
            /\ repo.approvers = {procs[q].uid}
            /\ repo.required_approvals = 2 => repo.status # "approved"

\* what the code does in that interleaving: the update of the first saver
\* is lost, and both executions end in NameError after their save
LostUpdate ==
    \A p, q \in Procs :
        BothReadBeforeEitherSave(p, q) =>
            /\ procs[p].result = "NameError" /\ procs[q].result = "NameError"
            /\ repo.approvers = {procs[q].uid}
            /\ repo.required_approvals >= 2 => repo.status # "approved"

LostUpdateReached ==
    \E p, q \in Procs :
        BothReadBeforeEitherSave(p, q) /\ repo.required_approvals = 2

\* the lock is held only inside find_by_id and save
LockHeldOnlyInsideRepositoryCalls ==
    \A p \in Procs : (lock = p) <=> procs[p].pc \in {"find", "save"}

(***************************************************************************)
(* Specification SpecSla: SLAService.get_sla_summary applied to every list *)
(* of at most MaxReviews reviews.  Time is counted in hours.  The SLA      *)
(* fields and methods of the review (sla_deadline, is_escalated,           *)
(* is_overdue, needs_escalation) are those the SLA service and its tests   *)
(* use.                                                                    *)
(***************************************************************************)
FIRST_ESCALATION_THRESHOLD == 4

\* sla_deadline: <<>> is None, <<h>> is the hour h
NoDeadline == <<>>

\* CodeReview.is_overdue(): a deadline is set and now is past it
is_overdue(self, t) ==
    /\ self.sla_deadline # NoDeadline
    /\ t > self.sla_deadline[1]

\* needs_escalation that forgets the completed reviews
needs_escalation_ignores_status(self, hours_threshold, t) ==
    IF self.sla_deadline = NoDeadline THEN FALSE
    ELSE self.sla_deadline[1] - t <= hours_threshold

\* CodeReview.needs_escalation(hours_threshold): never for a completed
\* review; otherwise the hours remaining (infinite without a deadline) are
\* at most the threshold
needs_escalation(self, hours_threshold, t) ==
    IF self.status \in {"merged", "closed", "rejected"} THEN FALSE
    ELSE IF self.sla_deadline = NoDeadline THEN FALSE
    ELSE self.sla_deadline[1] - t <= hours_threshold

\* escalated / total * 100 as the fraction <<numerator, denominator>>
Percentage(part, total) == IF total > 0 THEN <<part * 100, total>> ELSE <<0, 1>>

ZeroCounts == [on_time |-> 0, at_risk |-> 0, overdue |-> 0, escalated |-> 0]

\* the body of the loop of get_sla_summary for one review
sla_count_one(acc, r, t) ==
    IF r.status \in {"merged", "closed", "rejected"} THEN acc
    ELSE LET classified ==
                 IF is_overdue(r, t)
                 THEN [acc EXCEPT !.overdue = @ + 1]
                 ELSE IF needs_escalation(r, FIRST_ESCALATION_THRESHOLD, t)
                      THEN [acc EXCEPT !.at_risk = @ + 1]
                      ELSE [acc EXCEPT !.on_time = @ + 1]
         IN  IF r.is_escalated
             THEN [classified EXCEPT !.escalated = @ + 1]
             ELSE classified

\* the loop body without the skip of rejected reviews
sla_count_one_counts_rejected(acc, r, t) ==
    IF r.status \in {"merged", "closed"} THEN acc
    ELSE LET classified ==
                 IF is_overdue(r, t)
                 THEN [acc EXCEPT !.overdue = @ + 1]
                 ELSE IF needs_escalation(r, FIRST_ESCALATION_THRESHOLD, t)
                      THEN [acc EXCEPT !.at_risk = @ + 1]
                      ELSE [acc EXCEPT !.on_time = @ + 1]
         IN  IF r.is_escalated
             THEN [classified EXCEPT !.escalated = @ + 1]
             ELSE classified

RECURSIVE sla_loop(_, _, _, _)
sla_loop(rs, i, acc, t) ==
    IF i > Len(rs) THEN acc
    ELSE sla_loop(rs, i + 1, sla_count_one(acc, rs[i], t), t)

\* get_sla_summary counting rejected reviews as active
RECURSIVE sla_loop_counts_rejected(_, _, _, _)
sla_loop_counts_rejected(rs, i, acc, t) ==
    IF i > Len(rs) THEN acc
    ELSE sla_loop_counts_rejected(
             rs, i + 1, sla_count_one_counts_rejected(acc, rs[i], t), t)

SummaryOf(c) ==
    [total_active |-> c.on_time + c.at_risk + c.overdue,
     on_time |-> c.on_time,
     at_risk |-> c.at_risk,
     overdue |-> c.overdue,
     escalated |-> c.escalated,
     escalation_percentage |->
         Percentage(c.escalated, c.on_time + c.at_risk + c.overdue)]

get_sla_summary_counts_rejected(rs, t) ==
    SummaryOf(sla_loop_counts_rejected(rs, 1, ZeroCounts, t))

get_sla_summary(rs, t) == SummaryOf(sla_loop(rs, 1, ZeroCounts, t))

\* deadlines around the clock of InitSla: one hour ago, now, in 4 hours (the
\* threshold), in 5 hours, or none
SlaDeadlines == {NoDeadline, <<0>>, <<1>>, <<5>>, <<6>>}

SlaReviewValues ==
    [status : ReviewStatus, sla_deadline : SlaDeadlines,
     is_escalated : BOOLEAN]

InitSla ==
    /\ reviews \in UNION {[1..n -> SlaReviewValues] : n \in 0..MaxReviews}
    /\ now = 1
    /\ summary = IdleSummary
    /\ review = IdleRepo
    /\ lastOp = "init"
    /\ arg = NoArg
    /\ lastResult = "ok"
    /\ ret = NoRet
    /\ actor = NoUser
    /\ UseCaseIdle
    /\ EscalationIdle
    /\ RiskIdle
    /\ EnvironmentIdle
    /\ CommentIdle
    /\ UserRepoIdle

GetSlaSummary ==
    /\ lastOp' = "get_sla_summary"
    /\ summary' = get_sla_summary(reviews, now)
    /\ UNCHANGED <<review, arg, lastResult, ret, actor, repo, lock, procs,
                   saves, reviews, now, notified, riskScore,
                   environment, comment, commentRepo, userRepo>>

NextSla == GetSlaSummary

SpecSla == InitSla /\ [][NextSla]_vars

ActiveIndices ==
    {i \in 1..Len(reviews) :
        reviews[i].status \notin {"merged", "closed", "rejected"}}

OverdueIndices ==
    {i \in ActiveIndices :
        /\ reviews[i].sla_deadline # NoDeadline
        /\ reviews[i].sla_deadline[1] < now}

AtRiskIndices ==
    {i \in ActiveIndices \ OverdueIndices :
        /\ reviews[i].sla_deadline # NoDeadline
        /\ reviews[i].sla_deadline[1] - now <= 4}

\* C10: get_sla_summary ignores reviews in status merged, closed or
\* rejected and places every other review in exactly one of overdue
\* (deadline passed), at_risk (not overdue, at most 4 hours remaining) or
\* on_time, so that on_time + at_risk + overdue = total_active = the number
\* of non-terminal reviews, escalated <= total_active, and
\* escalation_percentage = escalated / total_active * 100 (0 when
\* total_active is 0).
C10_SlaSummaryPartition ==
    lastOp = "get_sla_summary" =>
        /\ summary.total_active = Cardinality(ActiveIndices)
        /\ summary.overdue = Cardinality(OverdueIndices)
        /\ summary.at_risk = Cardinality(AtRiskIndices)
        /\ summary.on_time =
               Cardinality((ActiveIndices \ OverdueIndices) \ AtRiskIndices)
        /\ summary.on_time + summary.at_risk + summary.overdue
               = summary.total_active
        /\ summary.escalated =
               Cardinality({i \in ActiveIndices : reviews[i].is_escalated})
        /\ summary.escalated <= summary.total_active
        /\ summary.escalation_percentage[1] * summary.total_active
               = summary.escalated * 100 * summary.escalation_percentage[2]
        /\ summary.total_active = 0 =>
               summary.escalation_percentage = <<0, 1>>

\* an overdue rejected review is left out and an escalated review due in
\* exactly 4 hours is at risk
C10_Witness ==
    /\ lastOp = "get_sla_summary"
    /\ Len(reviews) = 2
    /\ reviews[1].status = "rejected" /\ reviews[1].sla_deadline = <<0>>
    /\ reviews[1].is_escalated
    /\ reviews[2].sla_deadline = <<5>>
    /\ summary.total_active = 1
    /\ summary.at_risk = 1
    /\ summary.escalated = 1

(***************************************************************************)
(* Specification SpecEscalation: one review under the SLA service.  The    *)
(* clock advances in hours; a caller sets the deadline, asks whether the   *)
(* review needs escalation, escalates it, and polls                        *)
(* should_send_escalation_notification, marking the review notified        *)
(* exactly when the answer is true.                                        *)
(***************************************************************************)
MaxHour == 5
MaxLevel == 2

SECOND_ESCALATION_THRESHOLD == 1

\* the members of the enumeration ReviewPriority; a member is no string, so
\* it differs from the plain strings "low", "medium", "high" and "critical"
LOW == "ReviewPriority.LOW"

MEDIUM == "ReviewPriority.MEDIUM"

HIGH == "ReviewPriority.HIGH"

CRITICAL == "ReviewPriority.CRITICAL"

ReviewPriority == {LOW, MEDIUM, HIGH, CRITICAL}

\* a priority value that is no member of the enumeration: the string "high"
UnrecognizedPriority == "high"

SLA_HOURS_BY_PRIORITY ==
    (CRITICAL :> 4) @@ (HIGH :> 24) @@ (MEDIUM :> 48) @@ (LOW :> 72)

\* an absent time (None); a time h is <<h>>
NoTime == <<>>

\* no `level` argument given to escalate
NoLevel == <<>>

\* CodeReview(...) as the SLA service sees it: the defaults of the SLA
\* fields, and the status, priority and deadline given to the constructor
NewSlaReview(status, priority, sla_deadline, t) ==
    [status |-> status,
     priority |-> priority,
     created_at |-> t,
     sla_hours_limit |-> 48,
     sla_deadline |-> sla_deadline,
     is_escalated |-> FALSE,
     escalation_level |-> 0,
     escalation_notified_at |-> NoTime]

\* CodeReview.get_hours_remaining(): NoTime stands for +infinity
get_hours_remaining(self, t) ==
    IF self.sla_deadline = NoDeadline THEN NoTime
    ELSE <<self.sla_deadline[1] - t>>

\* CodeReview.set_sla_deadline(sla_hours)
set_sla_deadline(self, sla_hours) ==
    [self EXCEPT !.sla_hours_limit = sla_hours,
                 !.sla_deadline = <<self.created_at + sla_hours>>]

\* escalate that leaves the level where it is
escalate_keeps_level(self, level, t) ==
    [self EXCEPT !.is_escalated = TRUE,
                 !.escalation_notified_at = <<t>>]

\* CodeReview.escalate(level=None): `(level or self.escalation_level) + 1`
escalate(self, level, t) ==
    [self EXCEPT !.escalation_level =
                     (IF level = NoLevel \/ level = <<0>>
                      THEN self.escalation_level
                      ELSE level[1]) + 1,
                 !.is_escalated = TRUE,
                 !.escalation_notified_at = <<t>>]

\* the priority table with the hours of high and medium exchanged
calculate_sla_hours_swapped(code_review) ==
    IF code_review.priority = HIGH THEN 48
    ELSE IF code_review.priority = MEDIUM THEN 24
    ELSE IF code_review.priority \in DOMAIN SLA_HOURS_BY_PRIORITY
         THEN SLA_HOURS_BY_PRIORITY[code_review.priority]
         ELSE 48

\* SLAService.calculate_sla_hours: SLA_HOURS_BY_PRIORITY.get(priority, 48)
calculate_sla_hours(code_review) ==
    IF code_review.priority \in DOMAIN SLA_HOURS_BY_PRIORITY
    THEN SLA_HOURS_BY_PRIORITY[code_review.priority]
    ELSE 48

\* SLAService.set_sla_deadline
SLAService_set_sla_deadline(code_review) ==
    set_sla_deadline(code_review, calculate_sla_hours(code_review))

\* SLAService.check_sla_status
check_sla_status(code_review, t) ==
    [is_overdue |-> is_overdue(code_review, t),
     hours_remaining |-> get_hours_remaining(code_review, t),
     needs_escalation |->
         needs_escalation(code_review, FIRST_ESCALATION_THRESHOLD, t),
     escalation_level |-> code_review.escalation_level]

\* should_send_escalation_notification without the one-hour debounce
should_send_escalation_notification_no_debounce(code_review, t) ==
    needs_escalation(code_review, FIRST_ESCALATION_THRESHOLD, t)

\* SLAService.should_send_escalation_notification
should_send_escalation_notification(code_review, t) ==
    IF ~needs_escalation(code_review, FIRST_ESCALATION_THRESHOLD, t)
    THEN FALSE
    ELSE IF /\ code_review.escalation_notified_at # NoTime
            /\ t - code_review.escalation_notified_at[1] < 1
         THEN FALSE
         ELSE TRUE

\* SLAService.mark_escalation_notified
mark_escalation_notified(code_review, t) ==
    [code_review EXCEPT !.escalation_notified_at = <<t>>]

\* deadlines a caller passes to the constructor: none, or one in 2 hours
ConstructorDeadlines == {NoDeadline, <<2>>}

EscalationThresholds ==
    {SECOND_ESCALATION_THRESHOLD, FIRST_ESCALATION_THRESHOLD}

InitEscalation ==
    /\ review \in
         {NewSlaReview(st, pr, d, 0) :
            st \in ReviewStatus,
            pr \in ReviewPriority \cup {UnrecognizedPriority},
            d \in ConstructorDeadlines}
    /\ now = 0
    /\ notified = <<>>
    /\ lastOp = "init"
    /\ arg = NoArg
    /\ lastResult = "ok"
    /\ ret = NoRet
    /\ actor = NoUser
    /\ UseCaseIdle
    /\ reviews = <<>>
    /\ summary = IdleSummary
    /\ RiskIdle
    /\ EnvironmentIdle
    /\ CommentIdle
    /\ UserRepoIdle

EscFrame ==
    UNCHANGED <<lastResult, actor, repo, lock, procs, saves, reviews,
                summary, riskScore,
                   environment, comment, commentRepo, userRepo>>

\* an hour passes
Tick ==
    /\ now < MaxHour
    /\ now' = now + 1
    /\ lastOp' = "tick"
    /\ arg' = NoArg
    /\ ret' = NoRet
    /\ UNCHANGED <<review, notified>>
    /\ EscFrame

SetSlaDeadline ==
    /\ lastOp' = "set_sla_deadline"
    /\ arg' = NoArg
    /\ ret' = NoRet
    /\ review' = SLAService_set_sla_deadline(review)
    /\ UNCHANGED <<now, notified>>
    /\ EscFrame

NeedsEscalation(hours_threshold) ==
    /\ lastOp' = "needs_escalation"
    /\ arg' = hours_threshold
    /\ ret' = needs_escalation(review, hours_threshold, now)
    /\ UNCHANGED <<review, now, notified>>
    /\ EscFrame

CheckSlaStatus ==
    /\ lastOp' = "check_sla_status"
    /\ arg' = NoArg
    /\ ret' = check_sla_status(review, now)
    /\ UNCHANGED <<review, now, notified>>
    /\ EscFrame

Escalate ==
    /\ review.escalation_level < MaxLevel
    /\ lastOp' = "escalate"
    /\ arg' = NoArg
    /\ ret' = NoRet
    /\ review' = escalate(review, NoLevel, now)
    /\ UNCHANGED <<now, notified>>
    /\ EscFrame

\* the caller polls should_send_escalation_notification, and on true sends
\* the notification and calls mark_escalation_notified
PollNotification ==
    /\ Len(notified) <= MaxHour
    /\ lastOp' = "should_send_escalation_notification"
    /\ arg' = NoArg
    /\ ret' = should_send_escalation_notification(review, now)
    /\ IF should_send_escalation_notification(review, now)
       THEN /\ notified' = Append(notified, now)
            /\ review' = mark_escalation_notified(review, now)
       ELSE UNCHANGED <<review, notified>>
    /\ UNCHANGED now
    /\ EscFrame

NextEscalation ==
    \/ Tick
    \/ SetSlaDeadline
    \/ \E h \in EscalationThresholds : NeedsEscalation(h)
    \/ CheckSlaStatus
    \/ Escalate
    \/ PollNotification

SpecEscalation == InitEscalation /\ [][NextEscalation]_vars

IsCompleted(r) == r.status \in {"merged", "closed", "rejected"}

\* C11: needs_escalation(review, threshold) is false for a review in status
\* merged, closed or rejected whatever its deadline; for every other review
\* it is true exactly when the hours remaining until the deadline are at most
\* the threshold (false when no deadline is set, true for every overdue
\* active review).
C11_NeedsEscalation ==
    lastOp = "needs_escalation" =>
        /\ IsCompleted(review) => ret = FALSE
        /\ ~IsCompleted(review) =>
             /\ review.sla_deadline = NoDeadline => ret = FALSE
             /\ review.sla_deadline # NoDeadline =>
                  (ret <=> review.sla_deadline[1] - now <= arg)
             /\ is_overdue(review, now) => ret = TRUE

\* a merged review past its deadline does not need escalation
C11_Witness ==
    /\ lastOp = "needs_escalation"
    /\ review.status = "merged"
    /\ is_overdue(review, now)
    /\ ret = FALSE

NeedsEscalationAtFirstThreshold(r, t) ==
    /\ ~IsCompleted(r)
    /\ r.sla_deadline # NoDeadline
    /\ r.sla_deadline[1] - t <= 4

NotifiedWithinLastHour(r, t) ==
    /\ r.escalation_notified_at # NoTime
    /\ t - r.escalation_notified_at[1] < 1

C12_PollStep ==
    lastOp' = "should_send_escalation_notification" =>
        /\ ~NeedsEscalationAtFirstThreshold(review, now) => ret' = FALSE
        /\ NotifiedWithinLastHour(review, now) => ret' = FALSE
        /\ (/\ NeedsEscalationAtFirstThreshold(review, now)
            /\ ~NotifiedWithinLastHour(review, now)) => ret' = TRUE
        /\ Len(notified') > Len(notified) => ~IsCompleted(review)

NotificationsAnHourApart ==
    \A i, j \in DOMAIN notified : i < j => notified[j] - notified[i] >= 1

\* C12: should_send_escalation_notification is false when the review does
\* not need escalation at the 4-hour threshold, false when
\* escalation_notified_at is less than 1 hour before now, and true
\* otherwise; so when a caller polls at arbitrary times and calls
\* mark_escalation_notified exactly when the answer is true, two
\* notifications for the review are never less than 1 hour apart and none is
\* issued for a review in a terminal status.
C12_NotificationDebounce ==
    /\ [][C12_PollStep]_vars
    /\ []NotificationsAnHourApart

\* notifications sent at two consecutive hours
C12_Witness ==
    /\ Len(notified) = 2
    /\ notified[2] - notified[1] = 1
    /\ lastOp = "should_send_escalation_notification"
    /\ ret = TRUE

ExpectedSlaHours(priority) ==
    CASE priority = CRITICAL -> 4
      [] priority = HIGH -> 24
      [] priority = MEDIUM -> 48
      [] priority = LOW -> 72
      [] OTHER -> 48

C14_EscalateStep ==
    /\ lastOp' = "escalate" =>
         /\ review'.escalation_level = review.escalation_level + 1
         /\ review'.is_escalated
         /\ review'.escalation_notified_at = <<now>>
    /\ review'.escalation_level >= review.escalation_level

\* C14: a new review has is_escalated false and escalation_level 0; each
\* escalate() call without a level returns a review whose level is exactly
\* one greater than before, with is_escalated true and
\* escalation_notified_at set to now; so after k consecutive calls on a new
\* review the level is k, and it never decreases.
C14_EscalationLevel ==
    /\ (lastOp = "init" =>
          ~review.is_escalated /\ review.escalation_level = 0)
    /\ [][C14_EscalateStep]_vars
    /\ [](review.is_escalated <=> review.escalation_level > 0)

\* two escalations of a new review
C14_Witness ==
    /\ lastOp = "escalate"
    /\ review.escalation_level = 2
    /\ review.is_escalated
    /\ review.escalation_notified_at = <<now>>

(***************************************************************************)
(* Specification SpecRisk: the RiskScore entity.  Its scores and weights   *)
(* are Python floats (binary64: 53 significant bits, round to nearest,     *)
(* ties to even).  A float is modelled by the integer number of            *)
(* 2^-FracBits units it stands for, and every arithmetic result is rounded *)
(* with the same rule to MantissaBits significant bits.  MantissaBits is   *)
(* 13 because the binary expansion of a weight given in hundredths repeats *)
(* every 20 bits and 53 = 13 + 2 * 20, so such a weight is rounded at 13   *)
(* bits in the direction it is rounded at 53.  Factor scores are whole     *)
(* numbers.                                                                *)
(***************************************************************************)
MantissaBits == 13
FracBits == 20

Pow2(k) == 2 ^ k

\* the float 1.0
One == Pow2(FracBits)

Abs(x) == IF x < 0 THEN -x ELSE x

BitLength(n) ==
    IF n = 0 THEN 0
    ELSE CHOOSE k \in 1..30 : Pow2(k - 1) <= n /\ n < Pow2(k)

\* the float nearest to n units (ties to even)
RoundToFloat(n) ==
    LET b == BitLength(n)
    IN  IF b <= MantissaBits THEN n
        ELSE LET s == b - MantissaBits
                 q == n \div Pow2(s)
                 r == n % Pow2(s)
                 half == Pow2(s - 1)
             IN  IF r > half \/ (r = half /\ q % 2 = 1)
                 THEN (q + 1) * Pow2(s)
                 ELSE q * Pow2(s)

\* the float a decimal literal num/den denotes: the nearest float
FloatOf(num, den) ==
    LET b == BitLength((num * One) \div den)
        s == IF b > MantissaBits THEN b - MantissaBits ELSE 0
        d == den * Pow2(s)
        q == (num * One) \div d
        r == (num * One) % d
    IN  IF 2 * r > d \/ (2 * r = d /\ q % 2 = 1)
        THEN (q + 1) * Pow2(s)
        ELSE q * Pow2(s)

\* float addition and the product of a whole score and a float weight
FloatAdd(a, b) == RoundToFloat(a + b)

FloatMul(score, weight) == RoundToFloat(score * weight)

\* overall_score / risk_level not given to the constructor (None)
NoScore == <<>>

NoRiskLevel == "None"

\* the five factors in the order of the fields of RiskScore
Factors == 1..5

\* self.code_complexity_weight + ... + self.test_coverage_delta_weight
total_weight(weights) ==
    FloatAdd(FloatAdd(FloatAdd(FloatAdd(weights[1], weights[2]),
                               weights[3]), weights[4]), weights[5])

\* RiskScore._calculate_overall_score, and the same sum in
\* update_factor_scores
calculate_overall_score(scores, weights) ==
    FloatAdd(FloatAdd(FloatAdd(FloatAdd(FloatMul(scores[1], weights[1]),
                                        FloatMul(scores[2], weights[2])),
                               FloatMul(scores[3], weights[3])),
                      FloatMul(scores[4], weights[4])),
             FloatMul(scores[5], weights[5]))

\* RiskScore._determine_risk_level
determine_risk_level(score) ==
    IF score < 20 * One THEN "Low"
    ELSE IF score < 40 * One THEN "Medium"
    ELSE IF score < 70 * One THEN "High"
    ELSE "Critical"

\* RiskScore(...): the dataclass constructor followed by __post_init__
RiskScore(scores, weights, overall_score, risk_level) ==
    IF \E i \in Factors : ~(0 <= scores[i] /\ scores[i] <= 100)
    THEN Raise("ValueError")
    ELSE IF RoundToFloat(Abs(total_weight(weights) - One))
              > FloatOf(1, 1000)
    THEN Raise("ValueError")
    ELSE IF \E i \in Factors : weights[i] < 0
    THEN Raise("ValueError")
    ELSE LET overall ==
                 IF overall_score = NoScore
                 THEN calculate_overall_score(scores, weights)
                 ELSE overall_score[1]
         IN  IF ~(0 <= overall /\ overall <= 100 * One)
             THEN Raise("ValueError")
             ELSE [scores |-> scores,
                   weights |-> weights,
                   overall_score |-> overall,
                   risk_level |->
                       IF risk_level = NoRiskLevel
                       THEN determine_risk_level(overall)
                       ELSE risk_level]

\* RiskScore.update_factor_scores: an absent argument (<<>>) keeps the score
update_factor_scores(self, new_scores) ==
    LET scores ==
            [i \in Factors |->
                IF new_scores[i] = NoScore THEN self.scores[i]
                ELSE new_scores[i][1]]
    IN  IF \E i \in Factors : ~(0 <= scores[i] /\ scores[i] <= 100)
        THEN Raise("ValueError")
        ELSE LET new_overall_score ==
                     calculate_overall_score(scores, self.weights)
             IN  RiskScore(scores, self.weights, <<new_overall_score>>,
                           determine_risk_level(new_overall_score))

\* the default weights of the dataclass, in hundredths
DefaultWeights == <<20, 30, 20, 20, 10>>

\* weights a caller passes, in hundredths: the defaults, all the weight on
\* three factors, an even split over four, and a tuple that sums to 1.3
WeightCases ==
    {DefaultWeights, <<0, 0, 14, 55, 31>>, <<25, 25, 25, 25, 0>>,
     <<50, 30, 20, 20, 10>>}

\* factor scores a caller passes: every tuple over three scores of the
\* range, the tuple of test_risk_score_creation_with_valid_data, tuples on
\* the thresholds 20 and 70, and one score out of range
FactorCases ==
    [Factors -> {0, 40, 100}]
        \cup {<<50, 30, 20, 40, 10>>, <<20, 20, 20, 20, 20>>,
              <<70, 70, 70, 70, 70>>, <<101, 0, 0, 0, 0>>}

\* arguments of update_factor_scores
UpdateCases ==
    {<<<<100>>, <<100>>, <<100>>, <<100>>, <<100>>>>,
     <<<<0>>, NoScore, NoScore, NoScore, NoScore>>,
     <<NoScore, <<101>>, NoScore, NoScore, NoScore>>}

\* the float weights a tuple of hundredths denotes
WeightsOf(hundredths) == [i \in Factors |-> FloatOf(hundredths[i], 100)]

InitRisk ==
    /\ riskScore = NoRiskScore
    /\ arg \in [scores : FactorCases, hundredths : WeightCases]
    /\ lastOp = "init"
    /\ lastResult = "ok"
    /\ ret = NoRet
    /\ review = IdleRepo
    /\ actor = NoUser
    /\ UseCaseIdle
    /\ SlaIdle
    /\ EscalationIdle
    /\ EnvironmentIdle
    /\ CommentIdle
    /\ UserRepoIdle

RiskFrame ==
    UNCHANGED <<review, ret, actor, repo, lock, procs, saves, reviews, now,
                summary, notified, environment, comment, commentRepo, userRepo>>

RiskReturned(op, result) ==
    /\ lastOp' = op
    /\ riskScore' = result
    /\ lastResult' = IF Raised(result) THEN result.error ELSE "ok"
    /\ RiskFrame

\* RiskScore(id, code_review_id, scores, weights)
ConstructRiskScore ==
    /\ lastOp = "init"
    /\ RiskReturned("RiskScore",
                    RiskScore(arg.scores, WeightsOf(arg.hundredths),
                              NoScore, NoRiskLevel))
    /\ UNCHANGED arg

\* risk_score.update_factor_scores(...) on a constructed instance
UpdateFactorScores(new_scores) ==
    /\ lastOp = "RiskScore"
    /\ ~Raised(riskScore)
    /\ RiskReturned("update_factor_scores",
                    update_factor_scores(riskScore, new_scores))
    /\ arg' = [arg EXCEPT !.scores =
                   [i \in Factors |->
                       IF new_scores[i] = NoScore THEN riskScore.scores[i]
                       ELSE new_scores[i][1]]]

NextRisk ==
    \/ ConstructRiskScore
    \/ \E new_scores \in UpdateCases : UpdateFactorScores(new_scores)

SpecRisk == InitRisk /\ [][NextRisk]_vars

\* C15: a RiskScore built with factor scores (50, 30, 20, 40, 10) and the
\* default weights (0.2, 0.3, 0.2, 0.2, 0.1) has overall_score 32.0 and
\* risk_level "Low".
C15_ScenarioIsLow ==
    (/\ lastOp = "RiskScore"
     /\ arg.scores = <<50, 30, 20, 40, 10>>
     /\ arg.hundredths = DefaultWeights) =>
        /\ ~Raised(riskScore)
        /\ riskScore.overall_score = 32 * One
        /\ riskScore.risk_level = "Low"

\* what the code computes for the scenario: 32.0, which is Medium
ScenarioIsMedium ==
    (/\ lastOp = "RiskScore"
     /\ arg.scores = <<50, 30, 20, 40, 10>>
     /\ arg.hundredths = DefaultWeights) =>
        /\ ~Raised(riskScore)
        /\ riskScore.overall_score = 32 * One
        /\ riskScore.risk_level = "Medium"

ValidInputs ==
    /\ \A i \in Factors : 0 <= arg.scores[i] /\ arg.scores[i] <= 100
    /\ \A i \in Factors : arg.hundredths[i] >= 0
    /\ arg.hundredths[1] + arg.hundredths[2] + arg.hundredths[3]
         + arg.hundredths[4] + arg.hundredths[5] = 100

ExpectedRiskLevel(score) ==
    CASE score < 20 * One -> "Low"
      [] score >= 20 * One /\ score < 40 * One -> "Medium"
      [] score >= 40 * One /\ score < 70 * One -> "High"
      [] OTHER -> "Critical"

\* sum of score * weight in hundredths, computed without rounding
ExactWeightedSum ==
    arg.scores[1] * arg.hundredths[1] + arg.scores[2] * arg.hundredths[2]
      + arg.scores[3] * arg.hundredths[3] + arg.scores[4] * arg.hundredths[4]
      + arg.scores[5] * arg.hundredths[5]

\* the float is within 0.1 of the exact sum
NearExactWeightedSum(score) ==
    Abs(score - ((ExactWeightedSum \div 100) * One
                   + ((ExactWeightedSum % 100) * One) \div 100))
        <= One \div 10

\* C16: for all factor scores in [0, 100] and non-negative weights summing
\* to 1.0, constructing a RiskScore without an overall_score succeeds with
\* overall_score the sum of factor times weight, a value in [0, 100], and
\* risk_level Low below 20, Medium from 20 to below 40, High from 40 to
\* below 70 and Critical from 70; the same holds for the instance
\* update_factor_scores returns.
C16_OverallInRangeAndLevel ==
    (lastOp \in {"RiskScore", "update_factor_scores"} /\ ValidInputs) =>
        /\ ~Raised(riskScore)
        /\ NearExactWeightedSum(riskScore.overall_score)
        /\ 0 <= riskScore.overall_score
        /\ riskScore.overall_score <= 100 * One
        /\ riskScore.risk_level = ExpectedRiskLevel(riskScore.overall_score)

\* what holds on the code: an instance that is constructed has its level by
\* the thresholds and its score in range
ConstructedScoreInRangeAndLevel ==
    (lastOp \in {"RiskScore", "update_factor_scores"}
       /\ ~Raised(riskScore)) =>
        /\ 0 <= riskScore.overall_score
        /\ riskScore.overall_score <= 100 * One
        /\ riskScore.risk_level = ExpectedRiskLevel(riskScore.overall_score)
        /\ ValidInputs => NearExactWeightedSum(riskScore.overall_score)

\* valid scores and weights summing to 1.0 that the constructor rejects
ValidInputsRejected ==
    /\ lastOp = "RiskScore"
    /\ ValidInputs
    /\ Raised(riskScore)

(***************************************************************************)
(* Specification SpecEstimate: ReviewDomainService                         *)
(* .calculate_review_time_estimate and .should_escalate_review applied to  *)
(* a review.  Here the clock `now` counts minutes; the review was created  *)
(* at minute 0.                                                            *)
(***************************************************************************)
\* risk_score is None
NoRisk == -1

\* CodeReview(...) as the two methods read it
EstimateReviews ==
    [status : ReviewStatus,
     priority : ReviewPriority,
     files_changed : {1, 20},
     additions : {20, 41, 600},
     deletions : {10, 160},
     risk_score : {NoRisk, 0, 70, 85},
     created_at : {0}]

\* minutes since creation at which the service is asked: none, twice the
\* estimate of the small review of the tests, a minute more, and two days
AgesInMinutes == {0, 40, 41, 2880}

\* `code_review.risk_score and code_review.risk_score > 70`: None and 0 are
\* falsy
risk_score_is_high(code_review) ==
    /\ code_review.risk_score # NoRisk
    /\ code_review.risk_score # 0
    /\ code_review.risk_score > 70

size_bonus(lines_changed) ==
    IF lines_changed > 500 THEN 60
    ELSE IF lines_changed > 200 THEN 30
    ELSE IF lines_changed > 50 THEN 15
    ELSE 0

\* ReviewDomainService.calculate_review_time_estimate.  The priority is
\* compared with the strings "high" and "critical"; int(x * 0.75) and
\* int(x * 0.5) are exact on these whole numbers and truncate
calculate_review_time_estimate(code_review) ==
    LET sized == 15 + code_review.files_changed * 5
                   + size_bonus(code_review.additions
                                  + code_review.deletions)
        risked == IF risk_score_is_high(code_review)
                  THEN sized * 2 ELSE sized
    IN  IF code_review.priority = "high" THEN (risked * 3) \div 4
        ELSE IF code_review.priority = "critical" THEN risked \div 2
        ELSE risked

\* ReviewDomainService.should_escalate_review at minute t
should_escalate_review(code_review, t) ==
    LET estimated_time_threshold ==
            calculate_review_time_estimate(code_review) * 2
        is_aged == t - code_review.created_at > estimated_time_threshold
        is_high_risk == risk_score_is_high(code_review)
        is_urgent_priority == code_review.priority \in {"high", "critical"}
        is_not_approved == code_review.status \notin {"approved", "merged"}
    IN  is_aged /\ (is_high_risk \/ is_urgent_priority) /\ is_not_approved

InitEstimate ==
    /\ review \in EstimateReviews
    /\ now \in AgesInMinutes
    /\ lastOp = "init"
    /\ arg = NoArg
    /\ lastResult = "ok"
    /\ ret = NoRet
    /\ actor = NoUser
    /\ UseCaseIdle
    /\ reviews = <<>>
    /\ summary = IdleSummary
    /\ EscalationIdle
    /\ RiskIdle
    /\ EnvironmentIdle
    /\ CommentIdle
    /\ UserRepoIdle

EstimateFrame ==
    UNCHANGED <<review, arg, lastResult, actor, repo, lock, procs, saves,
                reviews, now, summary, notified, riskScore,
                   environment, comment, commentRepo, userRepo>>

CalculateReviewTimeEstimate ==
    /\ lastOp' = "calculate_review_time_estimate"
    /\ ret' = calculate_review_time_estimate(review)
    /\ EstimateFrame

ShouldEscalateReview ==
    /\ lastOp' = "should_escalate_review"
    /\ ret' = should_escalate_review(review, now)
    /\ EstimateFrame

NextEstimate == CalculateReviewTimeEstimate \/ ShouldEscalateReview

SpecEstimate == InitEstimate /\ [][NextEstimate]_vars

\* (15 + 5 * files_changed + bonus) * d of the claim
SizedAndRisked(r) ==
    (15 + 5 * r.files_changed
       + (IF r.additions + r.deletions > 500 THEN 60
          ELSE IF r.additions + r.deletions > 200 THEN 30
          ELSE IF r.additions + r.deletions > 50 THEN 15 ELSE 0))
      * (IF r.risk_score > 70 THEN 2 ELSE 1)

\* C17: calculate_review_time_estimate returns
\* floor(m * (15 + 5 * files_changed + bonus) * d), with bonus 60 if
\* additions + deletions > 500, 30 if > 200, 15 if > 50 and 0 otherwise,
\* d = 2 if risk_score > 70 and 1 otherwise, and m = 0.75 for priority high,
\* 0.5 for critical and 1 for low and medium.
C17_TimeEstimate ==
    lastOp = "calculate_review_time_estimate" =>
        ret = CASE review.priority = HIGH ->
                       (3 * SizedAndRisked(review)) \div 4
                [] review.priority = CRITICAL ->
                       SizedAndRisked(review) \div 2
                [] OTHER -> SizedAndRisked(review)

\* what the code returns: the priority never changes the estimate
EstimateIgnoresPriority ==
    lastOp = "calculate_review_time_estimate" =>
        ret = SizedAndRisked(review)

\* C18: should_escalate_review is true exactly when the time since creation
\* exceeds twice the time estimate, and the risk score is above 70 or the
\* priority is high or critical, and the status is neither approved nor
\* merged; in particular an aged, unapproved review of priority high or
\* critical with no risk score is escalated.
C18_ShouldEscalate ==
    lastOp = "should_escalate_review" =>
        (ret <=>
            /\ now - review.created_at
                 > 2 * calculate_review_time_estimate(review)
            /\ review.risk_score > 70 \/ review.priority \in {HIGH, CRITICAL}
            /\ review.status \notin {"approved", "merged"})

\* what the code returns: only a risk score above 70 escalates an aged,
\* unapproved review
EscalatesOnlyOnHighRisk ==
    lastOp = "should_escalate_review" =>
        (ret <=>
            /\ now - review.created_at
                 > 2 * calculate_review_time_estimate(review)
            /\ review.risk_score > 70
            /\ review.status \notin {"approved", "merged"})

(***************************************************************************)
(* Specification SpecRequests: the handlers of the controller for approve, *)
(* request-changes and merge, each running its use case against the        *)
(* repositories, one request after the other.                              *)
(***************************************************************************)
\* the id of the stored review, and a review id the repository does not hold
StoredReviewId == 1

MissingReviewId == 2

\* a user id the user repository does not hold
MissingUserId == AuthorId + 1

\* the field reviewer_id / merger_id absent from the request body
EmptyUserId == 0

\* what GitProviderServicePort.set_pull_request_status does: it returns
\* True, returns False, or raises
GitOutcomes == {"True", "False", "ConnectionError"}

NoError == "none"

\* the outcome of an execution: the stored review afterwards and the
\* exception that left execute, if any
UcResult(stored, error) == [repo |-> stored, error |-> error]

\* ApproveCodeReviewUseCaseImpl.execute
approve_execute(stored, code_review_id, reviewer_id) ==
    IF code_review_id # StoredReviewId THEN UcResult(stored, "ValueError")
    ELSE LET r == approve_decide(stored, reviewer_id)
         IN  IF Raised(r) THEN UcResult(stored, r.error)
             ELSE UcResult(r, IF Raised(approve_to_dto(r))
                              THEN approve_to_dto(r).error ELSE NoError)

\* RequestChangesUseCaseImpl._to_dto: ReviewStatusDTO and ReviewPriorityDTO
\* are not imported by request_changes.py either
request_changes_to_dto(code_review) == Raise("NameError")

\* RequestChangesUseCaseImpl.execute
request_changes_execute(stored, code_review_id, reviewer_id) ==
    IF code_review_id # StoredReviewId THEN UcResult(stored, "ValueError")
    ELSE IF reviewer_id \notin StoredUserIds
    THEN UcResult(stored, "ValueError")
    ELSE IF ~can_user_approve_review(StoredUser(reviewer_id), stored)
    THEN UcResult(stored, "PermissionError")
    ELSE LET r == request_changes(stored, reviewer_id)
         IN  IF Raised(r) THEN UcResult(stored, r.error)
             ELSE UcResult(r, IF Raised(request_changes_to_dto(r))
                              THEN request_changes_to_dto(r).error
                              ELSE NoError)

\* lines 58-95 of MergeCodeReviewUseCaseImpl.execute: the checks made before
\* code_review.merge(); the exception raised, or NoError
merge_checks(stored, code_review_id, merger_id) ==
    IF code_review_id # StoredReviewId THEN "ValueError"
    ELSE IF merger_id \notin StoredUserIds THEN "ValueError"
    ELSE IF ~can_merge(stored) THEN "ValueError"
    ELSE IF /\ merger_id # stored.requester.id
            /\ "admin" \notin StoredUser(merger_id).roles
    THEN "PermissionError"
    ELSE IF /\ stored.security_approval_required
            /\ ~\E a \in stored.approvers :
                   /\ a \in StoredUserIds
                   /\ "security_engineer" \in StoredUser(a).roles
    THEN "ValueError"
    ELSE IF /\ stored.qa_approval_required
            /\ ~\E a \in stored.approvers :
                   /\ a \in StoredUserIds
                   /\ "qa_engineer" \in StoredUser(a).roles
    THEN "ValueError"
    ELSE NoError

\* execute that gives up when the provider returns False
merge_execute_requires_git_success(stored, code_review_id, merger_id, git) ==
    IF merge_checks(stored, code_review_id, merger_id) # NoError
    THEN UcResult(stored, merge_checks(stored, code_review_id, merger_id))
    ELSE IF git # "True" THEN UcResult(stored, "RuntimeError")
    ELSE UcResult(merge(stored), NoError)

\* MergeCodeReviewUseCaseImpl.execute: set_pull_request_status is called
\* after code_review.merge() and before save; merge_code_review.py imports
\* the DTO enumerations, so _to_dto returns
merge_execute(stored, code_review_id, merger_id, git) ==
    IF merge_checks(stored, code_review_id, merger_id) # NoError
    THEN UcResult(stored, merge_checks(stored, code_review_id, merger_id))
    ELSE LET merged_code_review == merge(stored)
         IN  IF Raised(merged_code_review)
             THEN UcResult(stored, merged_code_review.error)
             ELSE IF git \notin {"True", "False"}
             THEN UcResult(stored, git)
             ELSE UcResult(merged_code_review, NoError)

\* the except clauses of the handlers that answer every error with 500
error_response_only_500(error) ==
    IF error = NoError
    THEN [status_code |-> 200, error_code |-> "none"]
    ELSE [status_code |-> 500, error_code |-> "INTERNAL_ERROR"]

\* the return and the except clauses of the handlers
error_response(error) ==
    IF error = NoError
    THEN [status_code |-> 200, error_code |-> "none"]
    ELSE IF error = "ValueError"
    THEN [status_code |-> 400, error_code |-> "VALIDATION_ERROR"]
    ELSE IF error = "PermissionError"
    THEN [status_code |-> 403, error_code |-> "PERMISSION_DENIED"]
    ELSE [status_code |-> 500, error_code |-> "INTERNAL_ERROR"]

Handlers == {"approve", "request_changes", "merge"}

Requests ==
    [handler : Handlers,
     review_id : {StoredReviewId, MissingReviewId},
     user_id : {EmptyUserId} \cup StoredUserIds \cup {MissingUserId},
     git : GitOutcomes]

\* the use case a handler runs
execute(stored, request) ==
    IF request.handler = "approve"
    THEN approve_execute(stored, request.review_id, request.user_id)
    ELSE IF request.handler = "request_changes"
    THEN request_changes_execute(stored, request.review_id,
                                 request.user_id)
    ELSE merge_execute(stored, request.review_id, request.user_id,
                       request.git)

InitRequests ==
    /\ repo \in
         {[NewCodeReview(StoredUser(AuthorId), "open", n, sec, FALSE)
             EXCEPT !.reviewers = UserIds] :
            n \in 1..MaxRequired, sec \in BOOLEAN}
    /\ lock = 0
    /\ procs = <<>>
    /\ saves = <<>>
    /\ review = IdleRepo
    /\ lastOp = "init"
    /\ arg = NoArg
    /\ lastResult = "ok"
    /\ ret = NoRet
    /\ actor = NoUser
    /\ SlaIdle
    /\ EscalationIdle
    /\ RiskIdle
    /\ EnvironmentIdle
    /\ CommentIdle
    /\ UserRepoIdle

\* a handler of the controller serves one request
Handle(request) ==
    /\ lastOp' = request.handler
    /\ arg' = request
    /\ IF request.user_id = EmptyUserId
       THEN /\ ret' = [status_code |-> 400, error_code |-> "MISSING_FIELD"]
            /\ lastResult' = "not called"
            /\ repo' = repo
       ELSE /\ ret' = error_response(execute(repo, request).error)
            /\ lastResult' = execute(repo, request).error
            /\ repo' = execute(repo, request).repo
    /\ UNCHANGED <<review, actor, lock, procs, saves, reviews, now, summary,
                   notified, riskScore,
                   environment, comment, commentRepo, userRepo>>

NextRequests == \E request \in Requests : Handle(request)

SpecRequests == InitRequests /\ [][NextRequests]_vars

\* a merge request on which every check made before the Git provider call
\* passes
MergePassesLocalChecks(stored, request) ==
    /\ request.handler = "merge"
    /\ request.user_id # EmptyUserId
    /\ merge_checks(stored, request.review_id, request.user_id) = NoError

C19_MergeStep ==
    (lastOp' = "merge" /\ MergePassesLocalChecks(repo, arg')) =>
        repo'.status = "merged"

C19_FalseResultStep ==
    (lastOp' = "merge" /\ MergePassesLocalChecks(repo, arg')) =>
        /\ arg'.git \in {"True", "False"} =>
             /\ repo'.status = "merged"
             /\ ret'.status_code = 200
        /\ arg'.git \notin {"True", "False"} =>
             /\ repo' = repo
             /\ ret'.status_code = 500

NotFoundRequest ==
    /\ lastOp \in Handlers
    /\ arg.user_id # EmptyUserId
    /\ \/ arg.review_id = MissingReviewId
       \/ arg.user_id = MissingUserId

MaxMinute == 3

EnvironmentStatus ==
    {"pending", "creating", "running", "stopped", "failed", "destroyed"}

\* Optional[str] url: None, the empty string, or an address
NoUrl == <<>>

Urls == {NoUrl, <<"">>, <<"https://env.example.com">>}

\* `not self.url`
UrlIsFalsy(url) == url = NoUrl \/ url[1] = ""

DefaultTtlMinutes == 120

\* Environment(...): __post_init__ validates and fills expires_at in
Environment(status, ttl_minutes, url, created_at, updated_at, expires_at, last_accessed_at) ==
    IF ttl_minutes <= 0
    THEN Raise("ValueError")
    ELSE IF status = "running" /\ UrlIsFalsy(url)
    THEN Raise("ValueError")
    ELSE [ status           |-> status,
           ttl_minutes      |-> ttl_minutes,
           url              |-> url,
           created_at       |-> created_at,
           updated_at       |-> updated_at,
           expires_at       |-> IF expires_at = NoTime
                                THEN <<created_at + ttl_minutes>>
                                ELSE expires_at,
           last_accessed_at |-> last_accessed_at ]

\* start that accepts every predecessor status
start_from_any_status(self, t) ==
    Environment("running", self.ttl_minutes, self.url, self.created_at,
                t, self.expires_at, <<t>>)

start(self, t) ==
    IF self.status \notin {"pending", "creating"}
    THEN Raise("ValueError")
    ELSE Environment("running", self.ttl_minutes, self.url, self.created_at,
                     t, self.expires_at, <<t>>)

stop(self, t) ==
    IF self.status # "running"
    THEN Raise("ValueError")
    ELSE Environment("stopped", self.ttl_minutes, self.url, self.created_at,
                     t, self.expires_at, self.last_accessed_at)

destroy(self, t) ==
    IF self.status = "destroyed"
    THEN Raise("ValueError")
    ELSE Environment("destroyed", self.ttl_minutes, self.url,
                     self.created_at, t, self.expires_at,
                     self.last_accessed_at)

mark_accessed(self, t) ==
    Environment(self.status, self.ttl_minutes, self.url, self.created_at,
                t, self.expires_at, <<t>>)

TtlInputs == {0, 1, DefaultTtlMinutes}

\* every Environment(id, code_review_id, status=, ttl_minutes=, url=)
ConstructedEnvironments ==
    {e \in {Environment(st, ttl, url, 0, 0, NoTime, NoTime) :
              st \in EnvironmentStatus, ttl \in TtlInputs, url \in Urls} :
       ~Raised(e)}

InitEnvironment ==
    /\ environment \in ConstructedEnvironments
    /\ now = 0
    /\ lastOp = "init"
    /\ arg = NoArg
    /\ lastResult = "ok"
    /\ ret = NoRet
    /\ review = IdleRepo
    /\ actor = NoUser
    /\ UseCaseIdle
    /\ reviews = <<>>
    /\ summary = IdleSummary
    /\ EscalationIdle
    /\ RiskIdle
    /\ CommentIdle
    /\ UserRepoIdle

EnvFrame ==
    UNCHANGED <<review, arg, ret, actor, repo, lock, procs, saves, reviews,
                summary, notified, riskScore, comment, commentRepo, userRepo>>

\* the caller keeps the returned instance, or the one it had when the call raised
EnvReturned(op, result) ==
    /\ lastOp' = op
    /\ IF Raised(result)
       THEN /\ lastResult' = result.error
            /\ environment' = environment
       ELSE /\ lastResult' = "ok"
            /\ environment' = result
    /\ now' = now
    /\ EnvFrame

EnvTick ==
    /\ now < MaxMinute
    /\ now' = now + 1
    /\ lastOp' = "tick"
    /\ lastResult' = "ok"
    /\ environment' = environment
    /\ EnvFrame

Start == EnvReturned("start", start(environment, now))

Stop == EnvReturned("stop", stop(environment, now))

Destroy == EnvReturned("destroy", destroy(environment, now))

MarkAccessed == EnvReturned("mark_accessed", mark_accessed(environment, now))

NextEnvironment ==
    \/ EnvTick
    \/ Start
    \/ Stop
    \/ Destroy
    \/ MarkAccessed

SpecEnvironment == InitEnvironment /\ [][NextEnvironment]_vars

\* a lifecycle call that returned a new instance
EnvSucceeded(op) == lastOp' = op /\ lastResult' = "ok"

\* a lifecycle call that raised
EnvFailed(op) == lastOp' = op /\ lastResult' # "ok"

C21_TransitionStep ==
    /\ EnvSucceeded("start") =>
         /\ environment.status \in {"pending", "creating"}
         /\ environment'.status = "running"
    /\ EnvSucceeded("stop") =>
         /\ environment.status = "running"
         /\ environment'.status = "stopped"
    /\ EnvSucceeded("destroy") => environment'.status = "destroyed"
    /\ (lastOp' = "destroy") =>
         (EnvSucceeded("destroy") <=> environment.status # "destroyed")
    /\ (lastOp' = "start"
        /\ environment.status \notin {"pending", "creating"}) =>
         EnvFailed("start")
    /\ (lastOp' = "stop" /\ environment.status # "running") =>
         EnvFailed("stop")
    /\ lastOp' = "mark_accessed" =>
         environment'.status = environment.status
    /\ (\E op \in {"start", "stop", "destroy", "mark_accessed"} :
          EnvFailed(op)) => environment' = environment
    /\ environment.status = "destroyed" =>
         environment'.status = "destroyed"

RunningHasUrl ==
    environment.status = "running" => ~UrlIsFalsy(environment.url)

\* C21: start succeeds only from pending or creating, stop only from
\* running, destroy from every status except destroyed; every other call
\* raises and the caller is left with the instance it had; a destroyed
\* environment stays destroyed under every call, and every running
\* environment has a non-empty url.
C21_EnvironmentLifecycle ==
    /\ [][C21_TransitionStep]_vars
    /\ []RunningHasUrl

\* a destroyed environment that was started once and on which start has
\* just been refused
C21_Witness ==
    /\ environment.status = "destroyed"
    /\ environment.last_accessed_at # NoTime
    /\ lastOp = "start"
    /\ lastResult = "ValueError"

(***************************************************************************)
(* CreateCodeReviewUseCaseImpl.execute                                      *)
(* (application/use_cases/create_code_review.py) over a user repository of *)
(* any content and any risk score the analysis service returns, followed   *)
(* by ApproveCodeReviewUseCaseImpl.execute calls on the review it stored.  *)
(***************************************************************************)
MaxStoredUsers == 3

\* RiskScore.needs_security_review
needs_security_review(self) ==
    self.scores[2] > 50 \/ self.overall_score > 70 * One

\* RiskScore.needs_qa_review
needs_qa_review(self) ==
    self.scores[5] > 40 \/ self.overall_score > 60 * One

\* the repository before the first save
EmptyRepository == [error |-> "none"]

\* `[user for user in available_users if role in user.roles]`
UsersWithRole(available_users, role) ==
    SelectSeq(available_users, LAMBDA user : role \in user.roles)

\* ReviewDomainService.calculate_required_reviewers
calculate_required_reviewers(code_review, risk_score, available_users) ==
    LET security_engineers ==
            UsersWithRole(available_users, "security_engineer")
        qa_engineers == UsersWithRole(available_users, "qa_engineer")
        special ==
            (IF needs_security_review(risk_score)
                /\ security_engineers # <<>>
             THEN {security_engineers[1].id} ELSE {})
            \cup
            (IF needs_qa_review(risk_score) /\ qa_engineers # <<>>
             THEN {qa_engineers[1].id} ELSE {})
        regular_reviewers ==
            SelectSeq(available_users,
                      LAMBDA user : /\ "reviewer" \in user.roles
                                    /\ user.id # code_review.requester.id)
    IN  IF special = {} /\ available_users # <<>>
           /\ regular_reviewers # <<>>
        THEN {regular_reviewers[1].id}
        ELSE special

\* CodeReview(..., title=title, requester=requester, status=OPEN): the
\* entity with the title the use case passes through
TitledCodeReview(title, requester) ==
    [title |-> title] @@ NewCodeReview(requester, "open", 1, FALSE, FALSE)

\* CodeReview.__post_init__ on the instance built at lines 176-201
with_required_approvals(code_review, n) ==
    IF n < 1 THEN Raise("ValueError")
    ELSE [code_review EXCEPT !.required_approvals = n]

\* lines 104-201 of execute: risk score (the float overall_score, in units
\* of 2^-FracBits), approval flags, reviewers and required_approvals, on the
\* instance saved first
create_prepare(code_review, risk_score, users) ==
    LET scored == set_risk_score(code_review, risk_score.overall_score)
        flagged ==
            [scored EXCEPT
               !.security_approval_required =
                   needs_security_review(risk_score) \/ @,
               !.qa_approval_required = needs_qa_review(risk_score) \/ @]
        required_reviewers ==
            calculate_required_reviewers(flagged, risk_score, users)
        assigned == update_reviewers(flagged,
                                     flagged.reviewers \cup required_reviewers)
    IN  with_required_approvals(assigned, Cardinality(required_reviewers))

\* CreateCodeReviewUseCaseImpl._to_dto: ReviewStatusDTO and
\* ReviewPriorityDTO are not imported by create_code_review.py
create_to_dto(code_review) == Raise("NameError")

\* CreateCodeReviewUseCaseImpl.execute: the reviews it saves, in order, and
\* the error it raises
create_execute(users, title, requester_id, risk_score) ==
    IF requester_id \notin 1..Len(users)
    THEN [saved |-> <<>>, error |-> "ValueError"]
    ELSE LET initial == TitledCodeReview(title, users[requester_id])
             prepared == create_prepare(initial, risk_score, users)
         IN  IF Raised(prepared)
             THEN [saved |-> <<initial>>, error |-> prepared.error]
             ELSE [saved |-> <<initial, prepared>>,
                   error |-> create_to_dto(prepared).error]

\* ApproveCodeReviewUseCaseImpl.execute against the varying user repository
approve_execute_with_users(users, stored, reviewer_id) ==
    IF stored = EmptyRepository THEN UcResult(stored, "ValueError")
    ELSE IF reviewer_id \notin 1..Len(users)
    THEN UcResult(stored, "ValueError")
    ELSE IF ~ can_user_approve_review(users[reviewer_id], stored)
    THEN UcResult(stored, "PermissionError")
    ELSE LET r == approve(stored, reviewer_id)
         IN  IF Raised(r) THEN UcResult(stored, r.error)
             ELSE UcResult(r, approve_to_dto(r).error)

CreateRoleSets ==
    {{"developer"}, {"reviewer"}, {"security_engineer"}, {"qa_engineer"},
     {"security_engineer", "qa_engineer"}}

\* the user repositories: up to MaxStoredUsers users, ids in insertion order
UserRepositories ==
    UNION {{[i \in 1..n |-> [id |-> i, roles |-> f[i]]] :
              f \in [1..n -> CreateRoleSets]} : n \in 1..MaxStoredUsers}

\* factor scores of the risk scores the analysis service returns: the tuple
\* of test_execute_creates_code_review_successfully, a security impact
\* above 50, a test coverage delta above 40, and every factor at 80
CreateRiskCases ==
    {<<50, 30, 20, 40, 10>>, <<0, 60, 0, 0, 0>>, <<0, 0, 0, 0, 50>>,
     <<80, 80, 80, 80, 80>>}

Titles == {"Test Review", "Fix login"}

InitCreate ==
    /\ userRepo \in UserRepositories
    /\ riskScore \in {RiskScore(scores, WeightsOf(DefaultWeights), NoScore,
                                NoRiskLevel) : scores \in CreateRiskCases}
    /\ repo = EmptyRepository
    /\ saves = <<>>
    /\ lock = 0
    /\ procs = <<>>
    /\ lastOp = "init"
    /\ arg = NoArg
    /\ lastResult = "ok"
    /\ ret = NoRet
    /\ review = IdleRepo
    /\ actor = NoUser
    /\ SlaIdle
    /\ EscalationIdle
    /\ EnvironmentIdle
    /\ CommentIdle

CreateFrame ==
    UNCHANGED <<review, ret, actor, lock, procs, reviews, now, summary,
                notified, riskScore, environment, comment, commentRepo,
                userRepo>>

\* one call of CreateCodeReviewUseCaseImpl.execute on the empty repository
Create(title, requester_id) ==
    /\ lastOp = "init"
    /\ LET r == create_execute(userRepo, title, requester_id, riskScore)
       IN  /\ saves' = r.saved
           /\ repo' = IF r.saved = <<>> THEN repo
                      ELSE r.saved[Len(r.saved)]
           /\ lastResult' = r.error
    /\ lastOp' = "create"
    /\ arg' = [title |-> title, requester_id |-> requester_id]
    /\ CreateFrame

\* one call of ApproveCodeReviewUseCaseImpl.execute after the creation
ApproveCreated(reviewer_id) ==
    /\ lastOp # "init"
    /\ LET r == approve_execute_with_users(userRepo, repo, reviewer_id)
       IN  /\ repo' = r.repo
           /\ lastResult' = r.error
    /\ lastOp' = "approve"
    /\ arg' = reviewer_id
    /\ UNCHANGED saves
    /\ CreateFrame

NextCreate ==
    \/ \E title \in Titles, requester_id \in 1..(MaxStoredUsers + 1) :
         Create(title, requester_id)
    \/ \E reviewer_id \in 1..(MaxStoredUsers + 1) :
         ApproveCreated(reviewer_id)

SpecCreate == InitCreate /\ [][NextCreate]_vars

\* the call had an existing requester
CreatedByExistingRequester ==
    /\ lastOp = "create"
    /\ arg.requester_id \in 1..Len(userRepo)

\* C22: execute, given the id of an existing requester, completes without
\* error and saves a review carrying the given title and that requester,
\* whatever set of reviewers calculate_required_reviewers returns, the
\* empty set included.
C22_CreateSucceeds ==
    CreatedByExistingRequester =>
        /\ lastResult = NoError
        /\ saves # <<>>
        /\ repo.title = arg.title
        /\ repo.requester = userRepo[arg.requester_id]

\* what the code does for an existing requester: it always raises, after
\* one save when no reviewer is found (ValueError from the constructor) and
\* after both saves otherwise (NameError from _to_dto); each saved review
\* carries the title and the requester
CreateRaisesAfterSaving ==
    CreatedByExistingRequester =>
        /\ \A i \in 1..Len(saves) :
             /\ saves[i].title = arg.title
             /\ saves[i].requester = userRepo[arg.requester_id]
        /\ IF calculate_required_reviewers(saves[1], riskScore, userRepo)
                = {}
           THEN lastResult = "ValueError" /\ Len(saves) = 1
           ELSE lastResult = "NameError" /\ Len(saves) = 2

\* the call of the repository's test: the requester is the only user and
\* no reviewer is found
CreateWithNoReviewerRaises ==
    /\ CreatedByExistingRequester
    /\ Len(userRepo) = 1
    /\ riskScore.scores = <<50, 30, 20, 40, 10>>
    /\ lastResult = "ValueError"
    /\ Len(saves) = 1
    /\ repo.reviewers = {}

\* the assigned reviewers whose approve execution is authorized
AuthorizedReviewers(code_review) ==
    {uid \in code_review.reviewers :
       /\ uid \in 1..Len(userRepo)
       /\ can_user_approve_review(userRepo[uid], code_review)}

\* C26: every review the create use case stores can reach status approved:
\* its assigned reviewers are never the requester, each of them passes the
\* security/QA role checks of can_user_approve_review, and their approvals
\* bring the number of approvers to required_approvals.
C26_CreatedReviewCanBeApproved ==
    (lastOp = "create" /\ repo # EmptyRepository) =>
        /\ repo.requester.id \notin repo.reviewers
        /\ AuthorizedReviewers(repo) = repo.reviewers
        /\ Cardinality(AuthorizedReviewers(repo)) >= repo.required_approvals

\* a stored review with fewer authorized reviewers than required approvals
\* is never approved by any sequence of approve executions
TooFewAuthorizedNeverApproved ==
    (repo # EmptyRepository
     /\ Cardinality(AuthorizedReviewers(repo)) < repo.required_approvals) =>
        repo.status # "approved"

\* the review stored for a change that needs both approvals, with a
\* security engineer and a QA engineer assigned, neither holding both roles
BothFlagsNobodyAuthorized ==
    /\ Len(saves) = 2
    /\ repo.security_approval_required
    /\ repo.qa_approval_required
    /\ Cardinality(repo.reviewers) = 2
    /\ repo.requester.id \notin repo.reviewers
    /\ AuthorizedReviewers(repo) = {}
    /\ lastOp = "approve"
    /\ lastResult = "PermissionError"

\* a created review that its assigned reviewer did approve
CreatedReviewApproved ==
    /\ Len(saves) = 2
    /\ repo.status = "approved"

(***************************************************************************)
(* Specification SpecAssign: CodeReview.assign_reviewer applied, any       *)
(* number of times and with any user id, to every review value with        *)
(* recorded approvals and rejections.                                      *)
(***************************************************************************)
\* the ids passed to assign_reviewer: the reviewers and the author
AssignableIds == 1..AuthorId

\* reviews of every status with any reviewers, and approvers and rejectors
\* kept disjoint and counted as the state-machine operations leave them
AssignReviewValues ==
    {r \in
       {[NewCodeReview(StoredUser(AuthorId), st, n, FALSE, FALSE)
           EXCEPT !.reviewers = rv, !.approvers = ap, !.rejectors = rj,
                  !.current_approvals = Cardinality(ap)] :
          st \in ReviewStatus, n \in 1..MaxRequired,
          rv \in SUBSET UserIds, ap \in SUBSET UserIds,
          rj \in SUBSET UserIds} : r.approvers \cap r.rejectors = {}}

InitAssign ==
    /\ review \in AssignReviewValues
    /\ lastOp = "init"
    /\ arg = NoArg
    /\ lastResult = "ok"
    /\ ret = NoRet
    /\ actor = NoUser
    /\ UseCaseIdle
    /\ SlaIdle
    /\ EscalationIdle
    /\ RiskIdle
    /\ EnvironmentIdle
    /\ CommentIdle
    /\ UserRepoIdle

NextAssign == \E uid \in AssignableIds : AssignReviewer(uid)

SpecAssign == InitAssign /\ [][NextAssign]_vars

C23_AssignStep ==
    lastOp' = "assign_reviewer" =>
        /\ lastResult' = "ok"
        /\ review'.reviewers = review.reviewers \cup {arg'}
        /\ assign_reviewer(review', arg').reviewers = review'.reviewers
        /\ (lastOp = "assign_reviewer" /\ arg = arg') =>
               review'.reviewers = review.reviewers
        /\ review' = [review EXCEPT !.reviewers = review'.reviewers]

\* C23: assign_reviewer(x) applied twice yields the same reviewers set as
\* applied once, and assign_reviewer changes no field other than reviewers
\* (status, approvers, rejectors and current_approvals keep their values).
C23_AssignReviewerIdempotent == [][C23_AssignStep]_vars

\* an approved review with an approver and a rejector, to which a reviewer
\* beside the existing one has just been assigned
C23_Witness ==
    /\ lastOp = "assign_reviewer"
    /\ arg \in review.reviewers
    /\ Cardinality(review.reviewers) >= 2
    /\ review.approvers # {}
    /\ review.rejectors # {}
    /\ review.status = "approved"

(***************************************************************************)
(* Comment entity (domain/entities/comment.py).  SpecComment starts from   *)
(* every Comment the constructor accepts with the default status flags and *)
(* applies update_content, mark_resolved, mark_unresolved and delete in    *)
(* any order.                                                              *)
(***************************************************************************)
\* Optional[str] / Optional[int] fields left at None
NoParent == <<>>

NoFile == <<>>

NoLine == <<>>

\* Comment(...): the dataclass constructor followed by __post_init__
Comment(content, author_id, code_review_id, parent_id, file_path, line_number, comment_type, is_resolved, is_deleted) ==
    IF content = "" THEN Raise("ValueError")
    ELSE IF author_id = EmptyUserId THEN Raise("ValueError")
    ELSE IF line_number # NoLine /\ line_number[1] < 0
    THEN Raise("ValueError")
    ELSE [ content        |-> content,
           author_id      |-> author_id,
           code_review_id |-> code_review_id,
           parent_id      |-> parent_id,
           file_path      |-> file_path,
           line_number    |-> line_number,
           comment_type   |-> comment_type,
           is_resolved    |-> is_resolved,
           is_deleted     |-> is_deleted ]

update_content(self, new_content) ==
    IF new_content = "" THEN Raise("ValueError")
    ELSE Comment(new_content, self.author_id, self.code_review_id,
                 self.parent_id, self.file_path, self.line_number,
                 self.comment_type, self.is_resolved, TRUE)

mark_resolved(self) ==
    Comment(self.content, self.author_id, self.code_review_id,
            self.parent_id, self.file_path, self.line_number,
            self.comment_type, TRUE, self.is_deleted)

mark_unresolved(self) ==
    Comment(self.content, self.author_id, self.code_review_id,
            self.parent_id, self.file_path, self.line_number,
            self.comment_type, FALSE, self.is_deleted)

delete(self) ==
    Comment(self.content, self.author_id, self.code_review_id,
            self.parent_id, self.file_path, self.line_number,
            self.comment_type, self.is_resolved, TRUE)

Contents == {"", "nit: rename", "looks good"}

\* <<parent_id, file_path, line_number, comment_type>> of a general, a
\* line, a file and a reply comment, and of a comment on a negative line
CommentPlacements ==
    {<<NoParent, NoFile, NoLine, "general">>,
     <<NoParent, <<"app.py">>, <<7>>, "line">>,
     <<NoParent, <<"app.py">>, NoLine, "file">>,
     <<<<1>>, NoFile, NoLine, "discussion">>,
     <<NoParent, <<"app.py">>, <<-1>>, "line">>}

\* every Comment(id, content, author_id, code_review_id=, parent_id=, ...)
\* that the constructor accepts
ConstructedComments ==
    {c \in {Comment(content, author_id, StoredReviewId, pl[1], pl[2],
                    pl[3], pl[4], FALSE, FALSE) :
              content \in Contents,
              author_id \in {EmptyUserId} \cup UserIds,
              pl \in CommentPlacements} :
       ~Raised(c)}

InitComment ==
    /\ comment \in ConstructedComments
    /\ commentRepo = <<>>
    /\ lastOp = "init"
    /\ arg = NoArg
    /\ lastResult = "ok"
    /\ ret = NoRet
    /\ review = IdleRepo
    /\ actor = NoUser
    /\ UseCaseIdle
    /\ SlaIdle
    /\ EscalationIdle
    /\ RiskIdle
    /\ EnvironmentIdle
    /\ UserRepoIdle

\* the caller keeps the returned instance, or the one it had when the call raised
CommentReturned(op, a, result) ==
    /\ lastOp' = op
    /\ arg' = a
    /\ IF Raised(result)
       THEN /\ lastResult' = result.error
            /\ comment' = comment
       ELSE /\ lastResult' = "ok"
            /\ comment' = result
    /\ UNCHANGED <<review, ret, actor, repo, lock, procs, saves, reviews,
                   now, summary, notified, riskScore, environment,
                   commentRepo, userRepo>>

UpdateContent(new_content) ==
    CommentReturned("update_content", new_content,
                    update_content(comment, new_content))

MarkResolved == CommentReturned("mark_resolved", NoArg, mark_resolved(comment))

MarkUnresolved ==
    CommentReturned("mark_unresolved", NoArg, mark_unresolved(comment))

Delete == CommentReturned("delete", NoArg, delete(comment))

NextComment ==
    \/ \E new_content \in Contents : UpdateContent(new_content)
    \/ MarkResolved
    \/ MarkUnresolved
    \/ Delete

SpecComment == InitComment /\ [][NextComment]_vars

C30_UpdateStep ==
    /\ (lastOp' = "update_content" /\ arg' # "") =>
         /\ lastResult' = "ok"
         /\ comment' = [comment EXCEPT !.content = arg']
    /\ (~comment.is_deleted /\ comment'.is_deleted) => lastOp' = "delete"

\* C30: update_content with non-empty content returns a comment that
\* differs from the original only in content (and updated_at): is_resolved,
\* is_deleted, author, threading and location fields keep their values, so
\* is_deleted becomes true only by a call of delete().
C30_UpdateContentKeepsFlags ==
    /\ [](lastOp = "init" => ~comment.is_deleted)
    /\ [][C30_UpdateStep]_vars

C30_UpdateAsCodedStep ==
    /\ (lastOp' = "update_content" /\ arg' # "") =>
         /\ lastResult' = "ok"
         /\ comment' = [comment EXCEPT !.content = arg', !.is_deleted = TRUE]
    /\ (lastOp' = "update_content" /\ arg' = "") =>
         /\ lastResult' = "ValueError"
         /\ comment' = comment
    /\ (lastOp' \in {"mark_resolved", "mark_unresolved"}) =>
         comment'.is_deleted = comment.is_deleted
    /\ (~comment.is_deleted /\ comment'.is_deleted) =>
         lastOp' \in {"delete", "update_content"}

\* what the code does: update_content with non-empty content returns a
\* comment with the new content and is_deleted set, every other field kept;
\* mark_resolved and mark_unresolved keep is_deleted
UpdateContentMarksDeleted == [][C30_UpdateAsCodedStep]_vars

\* a comment that reads as deleted right after an edit
EditedCommentIsDeleted ==
    /\ lastOp = "update_content"
    /\ lastResult = "ok"
    /\ comment.is_deleted

(***************************************************************************)
(* Specification SpecNeedsWork: the entity operations of Next applied, in  *)
(* any order, to a review that is in status needs_work, with any approvals *)
(* and rejections recorded so far.                                         *)
(***************************************************************************)
InitNeedsWork ==
    /\ review \in {r \in AssignReviewValues : r.status = "needs_work"}
    /\ lastOp = "init"
    /\ arg = NoArg
    /\ lastResult = "ok"
    /\ ret = NoRet
    /\ actor = NoUser
    /\ UseCaseIdle
    /\ SlaIdle
    /\ EscalationIdle
    /\ RiskIdle
    /\ EnvironmentIdle
    /\ CommentIdle
    /\ UserRepoIdle

SpecNeedsWork == InitNeedsWork /\ [][Next]_vars

C25_NeedsWorkStep ==
    review.status = "needs_work" =>
        /\ lastOp' \in {"approve", "reject", "merge"} =>
             /\ lastResult' = "ValueError"
             /\ review' = review
        /\ lastOp' = "close" => review'.status = "closed"
        /\ lastOp' = "request_changes" => review'.status = "needs_work"
        /\ lastOp' \notin {"close", "request_changes"} =>
             review'.status = "needs_work"

\* C25: once a review has status needs_work, approve, reject and merge all
\* fail; close takes it to closed and request_changes keeps it in
\* needs_work, and no other operation changes the status; hence no sequence
\* of entity operations starting from needs_work reaches approved or merged.
C25_NeedsWorkIsATrap ==
    /\ [][C25_NeedsWorkStep]_vars
    /\ [](review.status \in {"needs_work", "closed"})

\* a review in needs_work that holds enough approvals and on which merge
\* has just been refused
C25_Witness ==
    /\ review.status = "needs_work"
    /\ review.current_approvals >= review.required_approvals
    /\ review.approvers # {}
    /\ lastOp = "merge"
    /\ lastResult = "ValueError"

(***************************************************************************)
(* Specification SpecExecutions: the approve, request-changes and merge    *)
(* use cases executed one after another against one stored review of any   *)
(* value and a user repository that holds the requester and two other      *)
(* users with varying roles.                                               *)
(***************************************************************************)
\* RequestChangesUseCaseImpl.execute against the varying user repository
request_changes_execute_with_users(users, stored, reviewer_id) ==
    IF stored = EmptyRepository THEN UcResult(stored, "ValueError")
    ELSE IF reviewer_id \notin 1..Len(users)
    THEN UcResult(stored, "ValueError")
    ELSE IF ~ can_user_approve_review(users[reviewer_id], stored)
    THEN UcResult(stored, "PermissionError")
    ELSE LET r == request_changes(stored, reviewer_id)
         IN  IF Raised(r) THEN UcResult(stored, r.error)
             ELSE UcResult(r, request_changes_to_dto(r).error)

\* `any(find_by_id(a) and role in find_by_id(a).roles for a in approvers)`
has_approval_of_role(users, code_review, role) ==
    \E approver_id \in code_review.approvers :
        /\ approver_id \in 1..Len(users)
        /\ role \in users[approver_id].roles

\* the checks of merge without the lookup of the approvers' roles
merge_checks_with_users_trusting_approvers(users, stored, merger_id) ==
    IF stored = EmptyRepository THEN "ValueError"
    ELSE IF merger_id \notin 1..Len(users) THEN "ValueError"
    ELSE IF ~ can_merge(stored) THEN "ValueError"
    ELSE IF /\ merger_id # stored.requester.id
            /\ "admin" \notin users[merger_id].roles
    THEN "PermissionError"
    ELSE NoError

\* lines 58-95 of MergeCodeReviewUseCaseImpl.execute against the varying
\* user repository: the exception raised, or NoError
merge_checks_with_users(users, stored, merger_id) ==
    IF stored = EmptyRepository THEN "ValueError"
    ELSE IF merger_id \notin 1..Len(users) THEN "ValueError"
    ELSE IF ~ can_merge(stored) THEN "ValueError"
    ELSE IF /\ merger_id # stored.requester.id
            /\ "admin" \notin users[merger_id].roles
    THEN "PermissionError"
    ELSE IF /\ stored.security_approval_required
            /\ ~ has_approval_of_role(users, stored, "security_engineer")
    THEN "ValueError"
    ELSE IF /\ stored.qa_approval_required
            /\ ~ has_approval_of_role(users, stored, "qa_engineer")
    THEN "ValueError"
    ELSE NoError

\* MergeCodeReviewUseCaseImpl.execute against the varying user repository
merge_execute_with_users(users, stored, merger_id, git) ==
    IF merge_checks_with_users(users, stored, merger_id) # NoError
    THEN UcResult(stored, merge_checks_with_users(users, stored, merger_id))
    ELSE LET merged_code_review == merge(stored)
         IN  IF Raised(merged_code_review)
             THEN UcResult(stored, merged_code_review.error)
             ELSE IF git \notin {"True", "False"}
             THEN UcResult(stored, git)
             ELSE UcResult(merged_code_review, NoError)

\* code_review_repository.find_by_id(code_review_id)
find_by_id(stored, code_review_id) ==
    IF code_review_id = StoredReviewId THEN stored ELSE EmptyRepository

\* the use case a request runs; a review that is not found leaves the
\* repository as it is
execute_with_users(users, stored, request) ==
    LET found == find_by_id(stored, request.review_id)
        r == IF request.handler = "approve"
             THEN approve_execute_with_users(users, found, request.user_id)
             ELSE IF request.handler = "request_changes"
             THEN request_changes_execute_with_users(users, found,
                                                     request.user_id)
             ELSE merge_execute_with_users(users, found, request.user_id,
                                           request.git)
    IN  IF found = EmptyRepository THEN UcResult(stored, r.error) ELSE r

\* an execution reaches code_review_repository.save unless it raises one of
\* the errors of its checks or the Git provider raises
ReachesSave(error) == error \in {NoError, "NameError"}

\* the stored users: the requester (id 1) and two others
ExecutionUserRepositories ==
    {<<[id |-> 1, roles |-> r1], [id |-> 2, roles |-> r2],
       [id |-> 3, roles |-> r3]>> :
       r1 \in {{"developer"},
               {"developer", "security_engineer", "qa_engineer"}},
       r2 \in {{"reviewer"}, {"security_engineer"},
               {"admin", "security_engineer"}},
       r3 \in {{"reviewer"}, {"qa_engineer"}}}

\* the stored review: saved by any caller of the repository, so with any
\* approvers; the requester and user 2 are its reviewers
ExecutionReviews(users) ==
    {[NewCodeReview(users[1], st, n, sec, qa)
        EXCEPT !.reviewers = {1, 2}, !.approvers = ap,
               !.current_approvals = Cardinality(ap)] :
       st \in {"open", "approved"},
       n \in 1..MaxRequired, sec \in BOOLEAN, qa \in BOOLEAN,
       ap \in SUBSET {2, 3}}

\* the requests: every use case by every stored user and by an unknown one
\* (id 4), merges with every outcome of the Git provider, and each use case
\* on a review id the repository does not hold
ExecutionRequests ==
    {q \in [handler : Handlers,
            review_id : {StoredReviewId, MissingReviewId},
            user_id : 1..4,
            git : GitOutcomes] :
       /\ q.handler # "merge" => q.git = "True"
       /\ q.review_id = MissingReviewId => (q.user_id = 2 /\ q.git = "True")}

InitExecutions ==
    /\ userRepo \in ExecutionUserRepositories
    /\ repo \in ExecutionReviews(userRepo)
    /\ saves = <<>>
    /\ lock = 0
    /\ procs = <<>>
    /\ review = IdleRepo
    /\ lastOp = "init"
    /\ arg = NoArg
    /\ lastResult = "ok"
    /\ ret = NoRet
    /\ actor = NoUser
    /\ SlaIdle
    /\ EscalationIdle
    /\ RiskIdle
    /\ EnvironmentIdle
    /\ CommentIdle

\* one execution of a use case; saves holds what it saved
Execute(request) ==
    /\ lastOp' = request.handler
    /\ arg' = request
    /\ LET r == execute_with_users(userRepo, repo, request)
       IN  /\ lastResult' = r.error
           /\ repo' = r.repo
           /\ saves' = IF ReachesSave(r.error) THEN <<r.repo>> ELSE <<>>
    /\ UNCHANGED <<review, ret, actor, lock, procs, reviews, now, summary,
                   notified, riskScore, environment, comment, commentRepo,
                   userRepo>>

NextExecutions == \E request \in ExecutionRequests : Execute(request)

SpecExecutions == InitExecutions /\ [][NextExecutions]_vars

C27_ErrorStep ==
    (lastOp' \in Handlers /\ lastResult' # NoError) =>
        /\ repo' = repo
        /\ saves' = <<>>

\* C27: whenever the approve, request-changes or merge use case raises an
\* error, the review repository holds exactly the reviews it held before
\* the call: every check runs before the single save.
C27_ErrorLeavesRepository == [][C27_ErrorStep]_vars

ErrorOfChecksStep ==
    /\ (lastOp' \in Handlers
        /\ lastResult' \in {"ValueError", "PermissionError"}
                              \cup (GitOutcomes \ {"True", "False"})) =>
         /\ repo' = repo
         /\ saves' = <<>>
    /\ (lastOp' \in {"approve", "request_changes"}
        /\ lastResult' \notin {"ValueError", "PermissionError"}) =>
         /\ lastResult' = "NameError"
         /\ saves' = <<repo'>>

\* what the code does: an execution that raises ValueError or
\* PermissionError, or in which the Git provider raises, saves nothing;
\* approve and request-changes executions that pass their checks save the
\* review and then raise NameError
ErrorsOfChecksLeaveRepository == [][ErrorOfChecksStep]_vars

\* an approve execution that raised after recording the approval
ApproveRaisedAfterSave ==
    /\ lastOp = "approve"
    /\ lastResult = "NameError"
    /\ saves # <<>>
    /\ arg.user_id \in repo.approvers
    /\ repo.status = "approved"

\* a merge refused because the required QA approval is missing
MergeRefusedForMissingQaApproval ==
    /\ lastOp = "merge"
    /\ lastResult = "ValueError"
    /\ arg.review_id = StoredReviewId
    /\ can_merge(repo)
    /\ arg.user_id = repo.requester.id
    /\ repo.qa_approval_required
    /\ ~ has_approval_of_role(userRepo, repo, "qa_engineer")

\* the conditions of merge on the stored review and the merger, at the
\* time of the call
MergeAllowed(users, stored, merger_id) ==
    /\ merger_id \in 1..Len(users)
    /\ \/ merger_id = stored.requester.id
       \/ "admin" \in users[merger_id].roles
    /\ can_merge(stored)
    /\ stored.security_approval_required =>
         \E a \in stored.approvers :
             a \in 1..Len(users) /\ "security_engineer" \in users[a].roles
    /\ stored.qa_approval_required =>
         \E a \in stored.approvers :
             a \in 1..Len(users) /\ "qa_engineer" \in users[a].roles

C28_MergeSaveStep ==
    /\ (lastOp' = "merge" /\ saves' # <<>>) =>
         /\ saves'[1].status = "merged"
         /\ arg'.review_id = StoredReviewId
         /\ MergeAllowed(userRepo, repo, arg'.user_id)
    /\ (saves' # <<>> /\ saves'[1].status = "merged") => lastOp' = "merge"

\* C28: the merge use case saves a review with status merged only if, at
\* the time of the call, the merger is the requester or has the admin role,
\* can_merge() holds, and, when security (respectively QA) approval is
\* required, some approver is a stored user with the security_engineer
\* (respectively qa_engineer) role; no other use case saves status merged.
C28_MergedOnlyWhenAllowed == [][C28_MergeSaveStep]_vars

\* a review that needs both approvals, merged by an admin who is not the
\* requester
C28_Witness ==
    /\ lastOp = "merge"
    /\ saves # <<>>
    /\ repo.status = "merged"
    /\ repo.security_approval_required
    /\ repo.qa_approval_required
    /\ arg.user_id # repo.requester.id
    /\ "admin" \in userRepo[arg.user_id].roles

(***************************************************************************)
(* Specification SpecWorkflow: the approve, request-changes, merge and     *)
(* create-comment use cases executed by concurrent request threads against *)
(* one stored review.  Every repository call is atomic (it holds the       *)
(* repository's lock for its own duration); a thread can be preempted      *)
(* between any two repository calls.  The threads serve up to MaxCalls     *)
(* requests in all, each thread one request after the other.               *)
(***************************************************************************)
MaxCalls == 2

UseCases == {"approve", "request_changes", "merge", "comment"}

NoCall == "none"

IdleThread ==
    [uc |-> NoCall, uid |-> NoArg, pc |-> "idle", local |-> IdleRepo,
     calls |-> 0]

\* lines 79-98 of CreateCommentUseCaseImpl.execute: a general comment
create_comment_entity(content, author_id, code_review_id) ==
    Comment(content, author_id, code_review_id, NoParent, NoFile, NoLine,
            "general", FALSE, FALSE)

\* the content every comment request carries
CommentContent == "looks good"

\* the requests served: approvals and change requests by every stored user
\* and by an unknown one, merges by the author and by a reviewer, comments
\* by the author and by an unknown user
WorkflowRequests ==
    {q \in [uc : UseCases, uid : StoredUserIds \cup {MissingUserId}] :
       /\ q.uc = "merge" => q.uid \in {1, AuthorId}
       /\ q.uc = "comment" => q.uid \in {AuthorId, MissingUserId}}

RECURSIVE CallsBegun(_, _)
\* the number of executions begun by the threads 1..p
CallsBegun(threads, p) ==
    IF p = 0 THEN 0 ELSE threads[p].calls + CallsBegun(threads, p - 1)

InitWorkflow ==
    /\ repo \in
         {[NewCodeReview(StoredUser(AuthorId), "open", n, FALSE, FALSE)
             EXCEPT !.reviewers = rv] :
            n \in 1..MaxRequired, rv \in {UserIds, {1, AuthorId}}}
    /\ commentRepo = <<>>
    /\ comment = NoComment
    /\ procs = [p \in Procs |-> IdleThread]
    /\ lock = 0
    /\ saves = <<>>
    /\ review = IdleRepo
    /\ lastOp = "init"
    /\ arg = NoArg
    /\ lastResult = "ok"
    /\ ret = NoRet
    /\ actor = NoUser
    /\ SlaIdle
    /\ EscalationIdle
    /\ RiskIdle
    /\ EnvironmentIdle
    /\ UserRepoIdle

WorkflowFrame ==
    UNCHANGED <<review, arg, ret, actor, lock, saves, reviews, now, summary,
                notified, riskScore, environment, comment, userRepo>>

\* a thread starts an execution: its first repository calls, up to and
\* including code_review_repository.find_by_id; the comment use case looks
\* the author up first and raises when the author is unknown
Begin(p, uc, uid) ==
    /\ procs[p].pc = "idle"
    /\ CallsBegun(procs, NumProcs) < MaxCalls
    /\ IF uc = "comment" /\ uid \notin StoredUserIds
       THEN /\ procs' = [procs EXCEPT ![p].calls = @ + 1]
            /\ lastResult' = "ValueError"
       ELSE /\ procs' = [procs EXCEPT ![p].calls = @ + 1,
                                      ![p].uc = uc, ![p].uid = uid,
                                      ![p].local = repo,
                                      ![p].pc = IF uc = "comment"
                                                THEN "save_comment"
                                                ELSE "decide"]
            /\ lastResult' = lastResult
    /\ lastOp' = "begin"
    /\ UNCHANGED <<repo, commentRepo>>
    /\ WorkflowFrame

\* the rest of an approve, request-changes or merge execution: the checks
\* and the entity operation on the thread's copy, then the save
DecideAndSave(p, git) ==
    /\ procs[p].pc = "decide"
    /\ LET r == execute(procs[p].local,
                        [handler |-> procs[p].uc,
                         review_id |-> StoredReviewId,
                         user_id |-> procs[p].uid, git |-> git])
       IN  /\ repo' = IF ReachesSave(r.error) THEN r.repo ELSE repo
           /\ lastResult' = r.error
    /\ lastOp' = procs[p].uc
    /\ procs' = [procs EXCEPT
                   ![p] = [IdleThread EXCEPT !.calls = procs[p].calls]]
    /\ UNCHANGED commentRepo
    /\ WorkflowFrame

\* comment_repository.save(comment)
SaveComment(p) ==
    /\ procs[p].pc = "save_comment"
    /\ LET c == create_comment_entity(CommentContent, procs[p].uid,
                                      StoredReviewId)
       IN  IF Raised(c)
           THEN /\ commentRepo' = commentRepo
                /\ lastResult' = c.error
                /\ procs' = [procs EXCEPT
                               ![p] = [IdleThread EXCEPT
                                         !.calls = procs[p].calls]]
           ELSE /\ commentRepo' = Append(commentRepo, c)
                /\ lastResult' = lastResult
                /\ procs' = [procs EXCEPT ![p].pc = "save_review"]
    /\ lastOp' = "save_comment"
    /\ UNCHANGED repo
    /\ WorkflowFrame

\* code_review_repository.save(code_review.add_comment()), on the copy the
\* thread read when it began
SaveCommentedReview(p) ==
    /\ procs[p].pc = "save_review"
    /\ repo' = add_comment(procs[p].local)
    /\ lastResult' = NoError
    /\ lastOp' = "comment"
    /\ procs' = [procs EXCEPT
                   ![p] = [IdleThread EXCEPT !.calls = procs[p].calls]]
    /\ UNCHANGED commentRepo
    /\ WorkflowFrame

NextWorkflow ==
    \E p \in Procs :
        \/ \E q \in WorkflowRequests : Begin(p, q.uc, q.uid)
        \/ \E git \in GitOutcomes : DecideAndSave(p, git)
        \/ SaveComment(p)
        \/ SaveCommentedReview(p)

SpecWorkflow == InitWorkflow /\ [][NextWorkflow]_vars

\* C24: starting from a stored review with empty approvers, after any
\* sequence and any interleaving of approve, request-changes and merge
\* executions, every id in the stored review's approvers is one of its
\* reviewers and is not the requester's id.
C24_ApproversAreAssignedNotRequester ==
    /\ repo.approvers \subseteq repo.reviewers
    /\ repo.requester.id \notin repo.approvers

\* an approval stored while another thread is between its read and its
\* save, holding the copy without that approval
C24_Witness ==
    /\ repo.approvers # {}
    /\ \E p \in Procs :
         /\ procs[p].pc = "decide"
         /\ procs[p].uc \in {"approve", "request_changes", "merge"}
         /\ procs[p].local.approvers # repo.approvers

\* no execution is between its first and its last repository call
Quiescent == \A p \in Procs : procs[p].pc = "idle"

C29_CommentSaveStep ==
    lastOp' = "comment" => repo.approvers \subseteq repo'.approvers

\* C29: for a stored review created with comments_count 0, after any
\* interleaving of create-comment executions with each other and with
\* approve and request-changes executions, the stored comments_count equals
\* the number of comments saved for the review, and no approval recorded by
\* a completed approve execution is removed by a comment execution.
C29_CommentsCountedApprovalsKept ==
    /\ [](Quiescent => repo.comments_count = Len(commentRepo))
    /\ [][C29_CommentSaveStep]_vars

\* the first half of C29 alone: the count matches once every execution has
\* returned
CommentsCountMatchesWhenQuiescent ==
    Quiescent => repo.comments_count = Len(commentRepo)

\* the second half of C29 alone
CommentSaveKeepsApprovals == [][C29_CommentSaveStep]_vars

\* what the code guarantees: the stored count never exceeds the number of
\* comments saved, and a comment execution changes nothing but the count
\* of the copy it read
CommentsCountAtMostSaved ==
    /\ [](repo.comments_count <= Len(commentRepo))
    /\ [][lastOp' = "comment" =>
            \E p \in Procs :
                /\ procs[p].pc = "save_review"
                /\ repo' = [procs[p].local EXCEPT
                              !.comments_count = @ + 1]]_vars

\* two comments saved and a stored count of one, with every execution
\* returned
CommentCountLost ==
    /\ Quiescent
    /\ Len(commentRepo) = 2
    /\ repo.comments_count = 1

====
